---- MODULE Spec2Model ----
(***************************************************************************)
(* A model of @wopjs/disposable: the disposableStore (a Set of             *)
(* disposables), the disposableMap (a Map from keys to disposables), the   *)
(* keyed store created by disposable(), the disposableOne holder, the      *)
(* abortable wrapper and the functions dispose and join.                   *)
(*                                                                         *)
(* JavaScript is single threaded and every operation is synchronous, but   *)
(* a cleanup is user code that may call back into the library.  The model  *)
(* therefore keeps the call stack: a library function is a frame whose pc  *)
(* is the statement it continues with when its callee returns, and a user  *)
(* cleanup is a frame that may call any operation before it returns or     *)
(* throws.  A top-level call is made when the stack is empty.              *)
(***************************************************************************)
EXTENDS Integers, Sequences, FiniteSets, TLC

\* ------------------------------------------------------------- bounds
\* top-level calls made by the host program in one run
MaxOps == 5
\* top-level calls in a run of Spec
MaxSeqOps == 4
\* top-level calls in a run of SpecCycle
MaxCycleOps == 5
\* calls made by cleanups (re-entrant calls) in one run
MaxNested == 1
\* calls made by cleanups in a run of SpecInside
MaxInside == 2
\* top-level calls in a run of SpecInside
MaxInsideOps == 3
\* frames on the call stack
MaxDepth == 8
\* disposables given to one join
MaxJoin == 3

\* ----------------------------------------------------------- universe
Undef == "undefined"
\* the hole left in a Set/Map entry list by a deletion during forEach
Empty == "empty"
\* plain disposer functions (no dispose method)
Plain == {"p1", "p2", "p3"}
\* the disposers wrapped by the abortables (never registered directly)
Inner == {"w1"}
\* functions subscribed by the host program as onDispose observers
Observers == {"o1", "o2"}
Fns == Plain \cup Inner \cup Observers
\* functions that have a dispose method of their own, and those methods
DisposableDisposers == {"c1"}
Methods == {"c1.dispose"}
\* executor functions passed to make
Executors == {"x1"}
Abortables == {"a1"}
Stores == {"s1", "s2"}
Maps == {"m1"}
\* stores created by disposable(): a Map from the disposable itself or an id
KeyedStores == {"d1"}
\* holders created by disposableOne(): a single current disposable
Ones == {"h1"}
Registries == Stores \cup Maps \cup KeyedStores \cup Ones
\* disposers returned by join: j1 to the host program, e1 to extend
Joins == {"j1", "e1"}
\* disposable.dispose.bind(disposable), as made by extend
Bounds == {"c1.bound"}
\* what can be registered in a registry
Disposables == Plain \cup Abortables \cup Registries
\* keys of a disposableMap
\* the number 0 used as a key: a key that is falsy and not null
Zero == "0"
Keys == {"k1", Zero}
\* ids of a keyed store
Ids == {"i1", "i2"}

VARIABLES
  disposables,  \* registry -> its _disposables_ entry list, in insertion order
                \* (for a disposableOne: its current, as the entry "current";
                \* for a joined disposer: its array, indices as keys)
  isDisposing,  \* registry -> _isDisposing_ (0 or 1)
  wrapped,      \* abortable -> the closure variable `disposable`
  observer,     \* abortable -> its _o (the subscribed onDispose)
  ids,          \* keyed store -> its _ids_: disposable -> the id it was given
  stack,        \* the call stack, innermost frame last
  calls,        \* history: callable -> times it was entered
  trace,        \* history: the events of the current top-level call
  pre,          \* history: the current top-level call and the state it began in
  ops,          \* history: top-level calls made
  nested,       \* history: re-entrant calls (made by cleanups)
  escaped,      \* history: an error reached the top-level caller
  life,         \* history: disposable -> its registration and what followed
  inserted      \* history: registry -> keys by latest insertion, oldest first

prog == <<disposables, isDisposing, wrapped, observer, ids, stack>>
hist == <<calls, trace, pre, ops, nested, escaped, life, inserted>>
vars == <<prog, hist>>

\* ------------------------------------------------- Set / Map entry lists
\* A JavaScript Set or Map keeps its entries in insertion order.  forEach walks
\* the list by index: an entry deleted during the walk leaves a hole that is
\* skipped, an entry appended during the walk is visited.
Entry(k, v) == [k |-> k, v |-> v]
Hole == Entry(Empty, Empty)

ListHas(l, k) == \E i \in 1..Len(l) : l[i].k = k

IndexOf(l, k) == CHOOSE i \in 1..Len(l) : l[i].k = k

ListGet(l, k) == IF ListHas(l, k) THEN l[IndexOf(l, k)].v ELSE Undef

\* Map.prototype.set / Set.prototype.add: an existing key keeps its place
ListSet(l, k, v) ==
  IF ListHas(l, k) THEN [l EXCEPT ![IndexOf(l, k)] = Entry(k, v)]
  ELSE Append(l, Entry(k, v))

Without(l, i) == [j \in 1..(Len(l) - 1) |-> IF j < i THEN l[j] ELSE l[j + 1]]

\* Map.prototype.delete / Set.prototype.delete
ListDelete(l, k, walking) ==
  IF ~ListHas(l, k) THEN l
  ELSE IF walking THEN [l EXCEPT ![IndexOf(l, k)] = Hole]
  ELSE Without(l, IndexOf(l, k))

\* Map.prototype.clear / Set.prototype.clear
ListClear(l, walking) ==
  IF walking THEN [j \in 1..Len(l) |-> Hole] ELSE <<>>

ListSize(l) == Cardinality({i \in 1..Len(l) : l[i].k # Empty})

\* the index of the first live entry at or after i, 0 if there is none
NextLive(l, i) ==
  IF \E j \in i..Len(l) : l[j].k # Empty
  THEN CHOOSE j \in i..Len(l) :
         /\ l[j].k # Empty
         /\ \A h \in i..(j - 1) : l[h].k = Empty
  ELSE 0

\* ------------------------------------------------------ callees, frames
\* A callee is a function about to run: a disposer, an abortable, a
\* registry's dispose function, a subscribed closure, or a library method.
Callee(op, r, k, d) == [op |-> op, r |-> r, k |-> k, d |-> d]
None == Callee("none", Undef, Undef, Undef)

\* by, key: the registry (or abortable) that made the call through
\* utils.dispose and the key of the entry it disposes; Undef for a direct call
Frame(c, pc, try, by, key) ==
  [c |-> c, pc |-> pc, i |-> 0, try |-> try, by |-> by, key |-> key,
   arg |-> None]

Top == stack[Len(stack)]
Pop(s) == SubSeq(s, 1, Len(s) - 1)
\* the top frame moves to pc
Goto(s, pc) == [s EXCEPT ![Len(s)].pc = pc]
\* a direct call of a library function or of a function by user code
Call(s, c) == Append(s, Frame(c, "start", FALSE, Undef, Undef))

\* a forEach over the entries of r is in progress
Walking(s, r) ==
  \E n \in 1..Len(s) : s[n].c.op \in {"dispose", "keyedDispose"}
                        /\ s[n].c.r = r /\ s[n].pc = "loop"

\* isFn(disposable) && isFn(disposable.dispose) && isFn(disposable.abortable)
NeverAbortable(d) == FALSE

isAbortable(d) == d \in Abortables

\* if (disposable): a disposable that is null or undefined is falsy
NeverFalsy(d) == FALSE

Falsy(d) == d = Undef

\* disposable.dispose of a function that has a dispose method
MethodOf(d) == "c1.dispose"

\* dispose(disposable) of a function: disposable.dispose() when that is a
\* function, with the disposable as `this`; else disposable(), without `this`
FunctionFirst(d) == Callee("fn", d, Undef, Undef)

\* the joined disposer that extend(o, ...) assigns to o.dispose
ExtensionOf(o) == "e1"

\* o.dispose: the method o was created with, until extend replaces it
DisposeMethod(o) ==
  IF disposables[ExtensionOf(o)] # <<>>
  THEN Callee("joined", ExtensionOf(o), Undef, o)
  ELSE Callee("fn", MethodOf(o), Undef, o)

MethodFirst(d) ==
  IF d \in DisposableDisposers THEN DisposeMethod(d)
  ELSE Callee("fn", d, Undef, Undef)

\* disposable.dispose.bind(disposable) and the object it is bound to
Bound(o) == "c1.bound"

BoundTo(b) == "c1"

\* the function that dispose(disposable) calls: disposable.dispose() when
\* that is a function, else disposable() when disposable is a function, and
\* nothing for undefined
DisposeTarget(d) ==
  IF d \in Abortables THEN Callee("abortable", d, Undef, Undef)
  ELSE IF d \in Stores \cup Maps THEN Callee("dispose", d, Undef, Undef)
  ELSE IF d \in KeyedStores THEN Callee("keyedDispose", d, Undef, Undef)
  ELSE IF d \in Ones THEN Callee("oneDispose", d, Undef, Undef)
  ELSE IF d \in Fns \cup DisposableDisposers THEN MethodFirst(d)
  ELSE IF d \in Bounds
  THEN Callee("fn", MethodOf(BoundTo(d)), Undef, BoundTo(d))
  ELSE None

\* abortable(disposable): the disposer each abortable was created with
InnerOf(a) == "w1"

\* try { ... } catch (e) { console.error(e) } of utils.dispose
disposeRethrows == FALSE

disposeCatches == TRUE

\* dispose(disposable) of utils.ts with the callee already resolved: the call
\* is made inside the try block
dispose(s, c, by, key) ==
  IF c.op = "none" THEN s
  ELSE Append(s, Frame(c, "start", disposeCatches, by, key))

\* an error thrown by the top frame: frames are abandoned up to and including
\* the innermost call made inside a try block
RECURSIVE Unwind(_)
Unwind(s) ==
  IF s = <<>> THEN <<>>
  ELSE IF s[Len(s)].try THEN Pop(s)
  ELSE Unwind(Pop(s))

Uncaught(s) == \A n \in 1..Len(s) : ~s[n].try

\* ------------------------------------------------------------- history
Event(e, r, k, d) == [e |-> e, r |-> r, k |-> k, d |-> d]

AtTop == stack = <<>>
\* a user cleanup is running and may call into the library
InCleanup == stack # <<>> /\ Top.c.op = "fn" /\ Top.pc = "body"
CanCall ==
  \/ AtTop /\ ops < MaxOps
  \/ InCleanup /\ (nested < MaxNested \/ nested < MaxInside)

\* the events of the current top-level call so far
TraceBase == IF AtTop THEN <<>> ELSE trace

\* the disposables whose registration history is followed
Tracked == Plain \cup Abortables

NoLife ==
  [phase |-> "new", home |-> Undef, key |-> Undef, base |-> 0, covers |-> 0]

\* life of d after the call c: "held" once registered by one top-level call,
\* "covered" once a top-level flush or dispose addressed its registration,
\* "void" as soon as any other call was made after the registration
LifeAfter(c, d) ==
  IF c.op \in {"add", "set", "make"} /\ c.d = d
  THEN IF life[d].phase = "new" /\ AtTop
       THEN [phase |-> "held", home |-> c.r, key |-> c.k, base |-> calls[d],
             covers |-> 0]
       ELSE [life[d] EXCEPT !.phase = "void"]
  ELSE IF life[d].phase \in {"held", "covered"}
  THEN IF AtTop /\ c.op \in {"flush", "dispose"}
       THEN IF c.r = life[d].home /\ c.k \in {Undef, life[d].key}
            THEN [life[d] EXCEPT !.phase = "covered", !.covers = @ + 1]
            ELSE life[d]
       ELSE [life[d] EXCEPT !.phase = "void"]
  ELSE life[d]

\* bookkeeping of a call c made by the host program or by a cleanup
Called(c) ==
  /\ ops' = IF AtTop THEN ops + 1 ELSE ops
  /\ nested' = IF AtTop THEN nested ELSE nested + 1
  /\ pre' = IF AtTop
            THEN [c |-> c, disposables |-> disposables, wrapped |-> wrapped,
                  observer |-> observer, ids |-> ids, calls |-> calls,
                  nested |-> nested]
            ELSE pre
  /\ life' = [d \in Tracked |-> LifeAfter(c, d)]

\* bookkeeping of an entry stored under key k of registry r
Inserted(r, k) ==
  [inserted EXCEPT ![r] = Append(SelectSeq(@, LAMBDA x : x # k), k)]

\* bookkeeping of a callee that starts to run
Entered(x) ==
  /\ calls' = [calls EXCEPT ![x] = @ + 1]
  /\ trace' = Append(trace, Event("call", Top.by, Top.key, x))

Init ==
  /\ disposables = [r \in Registries \cup Joins |-> <<>>]
  /\ isDisposing = [r \in Registries |-> 0]
  /\ wrapped = [a \in Abortables |-> InnerOf(a)]
  /\ observer = [a \in Abortables |-> None]
  /\ ids = [r \in KeyedStores |-> [d \in Disposables |-> Undef]]
  /\ stack = <<>>
  /\ calls = [x \in Fns \cup DisposableDisposers \cup Methods \cup Executors
                       \cup Abortables \cup Registries \cup Joins |-> 0]
  /\ trace = <<>>
  /\ pre = [c |-> None, disposables |-> disposables, wrapped |-> wrapped,
            observer |-> observer, ids |-> ids, calls |-> calls, nested |-> 0]
  /\ ops = 0
  /\ nested = 0
  /\ escaped = FALSE
  /\ life = [d \in Tracked |-> NoLife]
  /\ inserted = [r \in Registries |-> <<>>]

\* --------------------------------------------------------- user cleanups
\* a disposer function starts to run
FnEnter ==
  /\ stack # <<>> /\ Top.c.op = "fn" /\ Top.pc = "start"
  /\ stack' = Goto(stack, "body")
  /\ Entered(Top.c.r)
  /\ UNCHANGED <<disposables, isDisposing, wrapped, observer, ids>>
  /\ UNCHANGED <<pre, ops, nested, escaped, life, inserted>>

\* a disposer function returns
FnReturn ==
  /\ InCleanup
  /\ stack' = Pop(stack)
  /\ UNCHANGED <<disposables, isDisposing, wrapped, observer, ids, hist>>

\* a disposer function throws
FnThrow ==
  /\ InCleanup
  /\ stack' = Unwind(stack)
  /\ escaped' = (escaped \/ Uncaught(stack))
  /\ trace' = Append(trace, Event("throw", Top.by, Top.key, Top.c.r))
  /\ UNCHANGED <<disposables, isDisposing, wrapped, observer, ids>>
  /\ UNCHANGED <<calls, pre, ops, nested, life, inserted>>

\* ------------------------------------------------ disposableStore / Map
\* function disposableStore(): void, function disposableMap(): void
\*   if (_isDisposing_) return; _isDisposing_ = 1;
NeverDisposing(r) == FALSE

IsDisposing(r) == isDisposing[r] # 0

DisposeStart ==
  /\ stack # <<>> /\ Top.c.op = "dispose" /\ Top.pc = "start"
  /\ IF IsDisposing(Top.c.r)
     THEN /\ stack' = Pop(stack)
          /\ UNCHANGED isDisposing
     ELSE /\ stack' = [stack EXCEPT ![Len(stack)].pc = "loop",
                                    ![Len(stack)].i = 1]
          /\ isDisposing' = [isDisposing EXCEPT ![Top.c.r] = 1]
  /\ Entered(Top.c.r)
  /\ UNCHANGED <<disposables, wrapped, observer, ids>>
  /\ UNCHANGED <<pre, ops, nested, escaped, life, inserted>>

\*   _disposables_?.forEach(dispose): the next live entry is disposed
DisposeEach ==
  /\ stack # <<>> /\ Top.c.op = "dispose" /\ Top.pc = "loop"
  /\ NextLive(disposables[Top.c.r], Top.i) # 0
  /\ LET j == NextLive(disposables[Top.c.r], Top.i)
         e == disposables[Top.c.r][j]
     IN stack' = dispose([stack EXCEPT ![Len(stack)].i = j + 1],
                         DisposeTarget(e.v), Top.c.r, e.k)
  /\ UNCHANGED <<disposables, isDisposing, wrapped, observer, ids, hist>>

\*   _disposables_?.clear()
ClearedKeepsEntries(r, s) == disposables[r]

Cleared(r, s) == ListClear(disposables[r], Walking(s, r))

\*   _isDisposing_ = 0
StaysDisposing(r) == isDisposing[r]

Idle(r) == 0

\*   _disposables_?.clear(); _isDisposing_ = 0;
DisposeEnd ==
  /\ stack # <<>> /\ Top.c.op = "dispose" /\ Top.pc = "loop"
  /\ NextLive(disposables[Top.c.r], Top.i) = 0
  /\ disposables' = [disposables EXCEPT
                       ![Top.c.r] = Cleared(Top.c.r, Pop(stack))]
  /\ isDisposing' = [isDisposing EXCEPT ![Top.c.r] = Idle(Top.c.r)]
  /\ stack' = Pop(stack)
  /\ trace' = Append(trace, Event("clear", Top.c.r, Undef, Undef))
  /\ UNCHANGED <<wrapped, observer, ids>>
  /\ UNCHANGED <<calls, pre, ops, nested, escaped, life, inserted>>

\* the registry is called as a function or through its dispose method
Dispose(r) ==
  /\ CanCall /\ Called(Callee("dispose", r, Undef, Undef))
  /\ stack' = Call(stack, Callee("dispose", r, Undef, Undef))
  /\ trace' = TraceBase
  /\ UNCHANGED <<disposables, isDisposing, wrapped, observer, ids>>
  /\ UNCHANGED <<calls, escaped, inserted>>

\* ---------------------------------------------------- disposableStore
\* disposable.abortable(onDispose) is called
SubscribeCall(s, a, onDispose) ==
  Append(s, [Frame(Callee("subscribe", a, Undef, Undef), "start", FALSE,
                   Undef, Undef) EXCEPT !.arg = onDispose])

\* _addOne, called on the stack s: nothing if the Set has the disposable;
\* else Set.add and, for an abortable,
\* disposable.abortable(() => this.remove(disposable))
AddOne(s, r, d) ==
  IF ~ListHas(disposables[r], d)
  THEN /\ disposables' = [disposables EXCEPT ![r] = ListSet(@, d, d)]
       /\ trace' = Append(TraceBase, Event("store", r, d, d))
       /\ inserted' = Inserted(r, d)
       /\ stack' = IF isAbortable(d)
                   THEN SubscribeCall(s, d, Callee("remove", r, d, Undef))
                   ELSE s
  ELSE /\ trace' = TraceBase
       /\ stack' = s
       /\ UNCHANGED <<disposables, inserted>>

\* add(disposable): _addOne.call(this, disposable)
StoreAdd(r, d) ==
  /\ CanCall /\ Called(Callee("add", r, d, d))
  /\ AddOne(stack, r, d)
  /\ UNCHANGED <<isDisposing, wrapped, observer, ids, calls, escaped>>

\* what Set.prototype.delete / Map.prototype.delete returns for the key k
Deletes(l, k) == IF ListHas(l, k) THEN "true" ELSE "false"

\* remove(disposable): return _disposables_?.delete(disposable) || false
StoreRemove(r, d) ==
  /\ CanCall /\ Called(Callee("remove", r, d, Undef))
  /\ disposables' = [disposables EXCEPT
                       ![r] = ListDelete(@, d, Walking(stack, r))]
  /\ trace' = Append(TraceBase,
                     Event("return", r, d, Deletes(disposables[r], d)))
  /\ UNCHANGED <<isDisposing, wrapped, observer, ids, stack>>
  /\ UNCHANGED <<calls, escaped, inserted>>

\* flush(disposable): if (disposable) { if (this.remove(disposable))
\* dispose(disposable) } else this.dispose()
StoreFlush(r, d) ==
  /\ CanCall /\ Called(Callee("flush", r, d, Undef))
  /\ IF Falsy(d)
     THEN /\ stack' = Call(stack, Callee("dispose", r, Undef, Undef))
          /\ UNCHANGED disposables
     ELSE /\ disposables' = [disposables EXCEPT
                               ![r] = ListDelete(@, d, Walking(stack, r))]
          /\ stack' = IF ListHas(disposables[r], d)
                      THEN dispose(stack, DisposeTarget(d), r, d)
                      ELSE stack
  /\ trace' = TraceBase
  /\ UNCHANGED <<isDisposing, wrapped, observer, ids>>
  /\ UNCHANGED <<calls, escaped, inserted>>

\* -------------------------------------------------------- disposableMap
\* remove(key): the entries after _disposables_.delete(key)
KeptInPlace(m, k) == disposables[m]

Removed(m, k) == ListDelete(disposables[m], k, Walking(stack, m))

\* set(key, disposable), called on the stack s, first statement:
\* this.flush(key), which for a key that is not null is
\* dispose(this.remove(key))
SetFlush(s, m, k, d) ==
  /\ disposables' = [disposables EXCEPT ![m] = Removed(m, k)]
  /\ stack' = dispose(Append(s, Frame(Callee("set", m, k, d), "flushed",
                                      FALSE, Undef, Undef)),
                      DisposeTarget(ListGet(disposables[m], k)), m, k)
  /\ trace' = TraceBase
  /\ UNCHANGED inserted

MapSet(m, k, d) ==
  /\ CanCall /\ Called(Callee("set", m, k, d))
  /\ SetFlush(stack, m, k, d)
  /\ UNCHANGED <<isDisposing, wrapped, observer, ids, calls, escaped>>

\* set: if (isAbortable(disposable)) disposable.abortable(() => this.remove(key))
SetSubscribe ==
  /\ stack # <<>> /\ Top.c.op = "set" /\ Top.pc = "flushed"
  /\ isAbortable(Top.c.d)
  /\ stack' = SubscribeCall(Goto(stack, "subscribed"), Top.c.d,
                            Callee("remove", Top.c.r, Top.c.k, Undef))
  /\ UNCHANGED <<disposables, isDisposing, wrapped, observer, ids, hist>>

\* set: (this._disposables_ ??= new Map()).set(key, disposable);
\* return disposable
SetStore ==
  /\ stack # <<>> /\ Top.c.op = "set"
  /\ Top.pc = "subscribed" \/ (Top.pc = "flushed" /\ ~isAbortable(Top.c.d))
  /\ disposables' = [disposables EXCEPT
                       ![Top.c.r] = ListSet(@, Top.c.k, Top.c.d)]
  /\ trace' = trace \o <<Event("store", Top.c.r, Top.c.k, Top.c.d),
                          Event("return", Top.c.r, Top.c.k, Top.c.d)>>
  /\ inserted' = Inserted(Top.c.r, Top.c.k)
  /\ stack' = Pop(stack)
  /\ UNCHANGED <<isDisposing, wrapped, observer, ids>>
  /\ UNCHANGED <<calls, pre, ops, nested, escaped, life>>

\* remove(key): the entry is deleted and returned, not invoked
MapRemove(m, k) ==
  /\ CanCall /\ Called(Callee("remove", m, k, Undef))
  /\ disposables' = [disposables EXCEPT ![m] = Removed(m, k)]
  /\ trace' = Append(TraceBase,
                     Event("return", m, k, ListGet(disposables[m], k)))
  /\ UNCHANGED <<isDisposing, wrapped, observer, ids, stack>>
  /\ UNCHANGED <<calls, escaped, inserted>>

\* key == null: the key is null or undefined
KeyIsFalsy(k) == k \in {Undef, Zero}

KeyIsNull(k) == k = Undef

\* flush(key): if (key == null) this.dispose();
\* else dispose(this.remove(key))
MapFlush(m, k) ==
  /\ CanCall /\ Called(Callee("flush", m, k, Undef))
  /\ IF KeyIsNull(k)
     THEN /\ stack' = Call(stack, Callee("dispose", m, Undef, Undef))
          /\ UNCHANGED disposables
     ELSE /\ disposables' = [disposables EXCEPT ![m] = Removed(m, k)]
          /\ stack' = dispose(stack,
                              DisposeTarget(ListGet(disposables[m], k)), m, k)
  /\ trace' = TraceBase
  /\ UNCHANGED <<isDisposing, wrapped, observer, ids>>
  /\ UNCHANGED <<calls, escaped, inserted>>

\* flush() without an argument, on a store or on a map
FlushAll(r) == IF r \in Maps THEN MapFlush(r, Undef) ELSE StoreFlush(r, Undef)

\* ------------------------------------------- keyed store (disposable())
\* _getId_(key): the id that _ids_ holds for key, else key itself
getId(r, key) ==
  IF key \in Disposables /\ ids[r][key] # Undef THEN ids[r][key] ELSE key

\* try { return fn() } catch (e) { console.error(e) } of invoke
invokeCatches == TRUE

\* invokeDispose(disposable): invoke(disposable.dispose || disposable)
invokeDispose(s, c, by, key) ==
  IF c.op = "none" THEN s
  ELSE Append(s, Frame(c, "start", invokeCatches, by, key))

\* flush(key): the entries after _disposables_.delete(id)
FlushedEntries(r, key) ==
  ListDelete(disposables[r], getId(r, key), Walking(stack, r))

\* flush(key): invokeDispose(disposable) for the entry found under the id
FlushedCall(s, r, key) ==
  invokeDispose(s, DisposeTarget(ListGet(disposables[r], getId(r, key))), r,
                getId(r, key))

\* add(disposable, id), called on the stack s, first statement:
\* this.flush(disposable)
KeyedAddFlush(s, r, d, id) ==
  /\ disposables' = [disposables EXCEPT ![r] = FlushedEntries(r, d)]
  /\ stack' = FlushedCall(Append(s, Frame(Callee("keyedAdd", r, id, d),
                                          "flushed", FALSE, Undef, Undef)),
                          r, d)
  /\ trace' = TraceBase
  /\ UNCHANGED inserted

KeyedAdd(r, d, id) ==
  /\ CanCall /\ Called(Callee("add", r, IF id = Undef THEN d ELSE id, d))
  /\ KeyedAddFlush(stack, r, d, id)
  /\ UNCHANGED <<isDisposing, wrapped, observer, ids>>
  /\ UNCHANGED <<calls, escaped>>

\* add: if (id != null) this.flush(id)
KeyedAddFlushId ==
  /\ stack # <<>> /\ Top.c.op = "keyedAdd" /\ Top.pc = "flushed"
  /\ Top.c.k # Undef
  /\ disposables' = [disposables EXCEPT
                       ![Top.c.r] = FlushedEntries(Top.c.r, Top.c.k)]
  /\ stack' = FlushedCall(Goto(stack, "flushedId"), Top.c.r, Top.c.k)
  /\ UNCHANGED <<isDisposing, wrapped, observer, ids, hist>>

\* add: _ids_.set(disposable, id) when an id is given;
\* _disposables_.set(disposableId, disposable); for an abortable,
\* disposable.abortable(() => this.remove(disposableId))
KeyedAddStore ==
  /\ stack # <<>> /\ Top.c.op = "keyedAdd"
  /\ Top.pc = "flushedId" \/ (Top.pc = "flushed" /\ Top.c.k = Undef)
  /\ LET r == Top.c.r
         d == Top.c.d
         disposableId == IF Top.c.k # Undef THEN Top.c.k ELSE d
     IN /\ ids' = IF Top.c.k # Undef
                  THEN [ids EXCEPT ![r][d] = Top.c.k]
                  ELSE ids
        /\ disposables' = [disposables EXCEPT
                             ![r] = ListSet(@, disposableId, d)]
        /\ trace' = Append(trace, Event("store", r, disposableId, d))
        /\ inserted' = Inserted(r, disposableId)
        /\ stack' = IF isAbortable(d)
                    THEN SubscribeCall(Pop(stack), d,
                                       Callee("remove", r, disposableId,
                                              Undef))
                    ELSE Pop(stack)
  /\ UNCHANGED <<isDisposing, wrapped, observer>>
  /\ UNCHANGED <<calls, pre, ops, nested, escaped, life>>

\* remove(key): return _disposables_.delete(this._getId_(key))
KeyedRemove(r, key) ==
  /\ CanCall /\ Called(Callee("remove", r, key, Undef))
  /\ disposables' = [disposables EXCEPT ![r] = FlushedEntries(r, key)]
  /\ trace' = Append(TraceBase,
                     Event("return", r, key,
                           Deletes(disposables[r], getId(r, key))))
  /\ UNCHANGED <<isDisposing, wrapped, observer, ids, stack>>
  /\ UNCHANGED <<calls, escaped, inserted>>

\* flush(key)
KeyedFlush(r, key) ==
  /\ CanCall /\ Called(Callee("flush", r, key, Undef))
  /\ disposables' = [disposables EXCEPT ![r] = FlushedEntries(r, key)]
  /\ stack' = FlushedCall(stack, r, key)
  /\ trace' = TraceBase
  /\ UNCHANGED <<isDisposing, wrapped, observer, ids>>
  /\ UNCHANGED <<calls, escaped, inserted>>

\* dispose(): the body is entered
KeyedDisposeStart ==
  /\ stack # <<>> /\ Top.c.op = "keyedDispose" /\ Top.pc = "start"
  /\ stack' = [stack EXCEPT ![Len(stack)].pc = "loop", ![Len(stack)].i = 1]
  /\ Entered(Top.c.r)
  /\ UNCHANGED <<disposables, isDisposing, wrapped, observer, ids>>
  /\ UNCHANGED <<pre, ops, nested, escaped, life, inserted>>

\* dispose(): this._disposables_.forEach(invokeDispose)
KeyedDisposeEach ==
  /\ stack # <<>> /\ Top.c.op = "keyedDispose" /\ Top.pc = "loop"
  /\ NextLive(disposables[Top.c.r], Top.i) # 0
  /\ LET j == NextLive(disposables[Top.c.r], Top.i)
         e == disposables[Top.c.r][j]
     IN stack' = invokeDispose([stack EXCEPT ![Len(stack)].i = j + 1],
                               DisposeTarget(e.v), Top.c.r, e.k)
  /\ UNCHANGED <<disposables, isDisposing, wrapped, observer, ids, hist>>

\* dispose(): this._disposables_.clear()
KeyedDisposeEnd ==
  /\ stack # <<>> /\ Top.c.op = "keyedDispose" /\ Top.pc = "loop"
  /\ NextLive(disposables[Top.c.r], Top.i) = 0
  /\ disposables' = [disposables EXCEPT
                       ![Top.c.r] = ListClear(@, Walking(Pop(stack), Top.c.r))]
  /\ stack' = Pop(stack)
  /\ trace' = Append(trace, Event("clear", Top.c.r, Undef, Undef))
  /\ UNCHANGED <<isDisposing, wrapped, observer, ids>>
  /\ UNCHANGED <<calls, pre, ops, nested, escaped, life, inserted>>

\* the keyed store is called as a function or through its dispose method
KeyedDispose(r) ==
  /\ CanCall /\ Called(Callee("dispose", r, Undef, Undef))
  /\ stack' = Call(stack, Callee("keyedDispose", r, Undef, Undef))
  /\ trace' = TraceBase
  /\ UNCHANGED <<disposables, isDisposing, wrapped, observer, ids>>
  /\ UNCHANGED <<calls, escaped, inserted>>

\* has(key)
KeyedHas(r, key) == ListHas(disposables[r], getId(r, key))

\* get(key)
KeyedGet(r, key) == ListGet(disposables[r], getId(r, key))

\* ---------------------------------------------------------- disposableOne
\* this.current
current(h) == ListGet(disposables[h], "current")

\* is(disposable): Object.is(this.current, disposable)
isNever(h, d) == FALSE

is(h, d) == current(h) = d

\* function disposableOne(): void, also its dispose and flush:
\*   if (current) { disposableOne.current = null; dispose(current) }
OneDisposeStart ==
  /\ stack # <<>> /\ Top.c.op = "oneDispose" /\ Top.pc = "start"
  /\ disposables' = [disposables EXCEPT ![Top.c.r] = <<>>]
  /\ stack' = dispose(Pop(stack), DisposeTarget(current(Top.c.r)), Top.c.r,
                      "current")
  /\ Entered(Top.c.r)
  /\ UNCHANGED <<isDisposing, wrapped, observer, ids>>
  /\ UNCHANGED <<pre, ops, nested, escaped, life, inserted>>

\* disposableOne(disposable): the holder is created with disposable as its
\* current (disposableOne.current = disposable, and nothing else)
OneCreate(h, d) ==
  /\ CanCall /\ Called(Callee("create", h, "current", d))
  /\ inserted[h] = <<>> /\ calls[h] = 0
  /\ disposables' = [disposables EXCEPT ![h] = <<Entry("current", d)>>]
  /\ trace' = Append(TraceBase, Event("store", h, "current", d))
  /\ inserted' = Inserted(h, "current")
  /\ UNCHANGED <<isDisposing, wrapped, observer, ids, stack>>
  /\ UNCHANGED <<calls, escaped>>

\* the holder is called as a function, or its dispose() or flush()
OneDispose(h) ==
  /\ CanCall /\ Called(Callee("dispose", h, Undef, Undef))
  /\ stack' = Call(stack, Callee("oneDispose", h, Undef, Undef))
  /\ trace' = TraceBase
  /\ UNCHANGED <<disposables, isDisposing, wrapped, observer, ids>>
  /\ UNCHANGED <<calls, escaped, inserted>>

\* set: this.flush()
KeepsCurrent(s, h) == s

FlushCurrent(s, h) == Call(s, Callee("oneDispose", h, Undef, Undef))

\* set(disposable), called on the stack s:
\* if (!disposable || !this.is(disposable)) this.flush() ...; else
\* return disposable
SetOne(s, h, d) ==
  /\ IF Falsy(d) \/ ~is(h, d)
     THEN /\ stack' = FlushCurrent(Append(s, Frame(Callee("oneSet", h,
                                                          "current", d),
                                                   "flushed", FALSE, Undef,
                                                   Undef)), h)
          /\ trace' = TraceBase
     ELSE /\ stack' = s
          /\ trace' = Append(TraceBase, Event("return", h, "current", d))
  /\ UNCHANGED <<disposables, inserted>>

OneSet(h, d) ==
  /\ CanCall /\ Called(Callee("set", h, "current", d))
  /\ SetOne(stack, h, d)
  /\ UNCHANGED <<isDisposing, wrapped, observer, ids, calls, escaped>>

\* set: this.current = disposable; for an abortable,
\* disposable.abortable(() => { if (this.is(disposable)) this.remove() })
OneSetStore ==
  /\ stack # <<>> /\ Top.c.op = "oneSet" /\ Top.pc = "flushed"
  /\ disposables' = [disposables EXCEPT
                       ![Top.c.r] = IF Top.c.d = Undef THEN <<>>
                                    ELSE <<Entry("current", Top.c.d)>>]
  /\ trace' = Append(trace, Event("store", Top.c.r, "current", Top.c.d))
  /\ inserted' = Inserted(Top.c.r, "current")
  /\ stack' = IF isAbortable(Top.c.d)
              THEN SubscribeCall(Goto(stack, "stored"), Top.c.d,
                                 Callee("oneRemove", Top.c.r, "current",
                                        Top.c.d))
              ELSE Goto(stack, "stored")
  /\ UNCHANGED <<isDisposing, wrapped, observer, ids>>
  /\ UNCHANGED <<calls, pre, ops, nested, escaped, life>>

\* set: return disposable
OneSetReturn ==
  /\ stack # <<>> /\ Top.c.op = "oneSet" /\ Top.pc = "stored"
  /\ trace' = Append(trace, Event("return", Top.c.r, "current", Top.c.d))
  /\ stack' = Pop(stack)
  /\ UNCHANGED <<disposables, isDisposing, wrapped, observer, ids>>
  /\ UNCHANGED <<calls, pre, ops, nested, escaped, life, inserted>>

\* the closure () => { if (this.is(disposable)) this.remove() }
OneRemoveClosure ==
  /\ stack # <<>> /\ Top.c.op = "oneRemove"
  /\ disposables' = [disposables EXCEPT
                       ![Top.c.r] = IF is(Top.c.r, Top.c.d) THEN <<>> ELSE @]
  /\ trace' = Append(trace, Event("notify", Top.c.r, Top.c.k, Top.by))
  /\ stack' = Pop(stack)
  /\ UNCHANGED <<isDisposing, wrapped, observer, ids>>
  /\ UNCHANGED <<calls, pre, ops, nested, escaped, life, inserted>>

\* remove(): const exists = !!this.current; this.current = undefined;
\* return exists
OneRemove(h) ==
  /\ CanCall /\ Called(Callee("remove", h, "current", Undef))
  /\ disposables' = [disposables EXCEPT ![h] = <<>>]
  /\ trace' = Append(TraceBase,
                     Event("return", h, "current",
                           Deletes(disposables[h], "current")))
  /\ UNCHANGED <<isDisposing, wrapped, observer, ids, stack>>
  /\ UNCHANGED <<calls, escaped, inserted>>

\* ---------------------------------------------------------- dispose, join
\* the host program calls dispose(disposable) of utils.ts
UtilsDispose(d) ==
  /\ CanCall /\ Called(Callee("utils.dispose", Undef, Undef, d))
  /\ stack' = dispose(stack, DisposeTarget(d), Undef, Undef)
  /\ trace' = TraceBase
  /\ UNCHANGED <<disposables, isDisposing, wrapped, observer, ids>>
  /\ UNCHANGED <<calls, escaped, inserted>>

\* the index of the i-th element of an array
ArrayKey(i) == ToString(i - 1)

\* join(...disposables): the disposer j is created over the array ds
JoinMake(j, ds) ==
  /\ CanCall /\ Called(Callee("join", j, Undef, Undef))
  /\ disposables[j] = <<>>
  /\ disposables' = [disposables EXCEPT
                       ![j] = [i \in 1..Len(ds) |-> Entry(ArrayKey(i), ds[i])]]
  /\ trace' = TraceBase
  /\ UNCHANGED <<isDisposing, wrapped, observer, ids, stack>>
  /\ UNCHANGED <<calls, escaped, inserted>>

\* the joined disposer is called
JoinCall(j) ==
  /\ CanCall /\ Called(Callee("joined", j, Undef, Undef))
  /\ stack' = Call(stack, Callee("joined", j, Undef, Undef))
  /\ trace' = TraceBase
  /\ UNCHANGED <<disposables, isDisposing, wrapped, observer, ids>>
  /\ UNCHANGED <<calls, escaped, inserted>>

\* disposables.forEach(dispose) starts
JoinStart ==
  /\ stack # <<>> /\ Top.c.op = "joined" /\ Top.pc = "start"
  /\ stack' = [stack EXCEPT ![Len(stack)].pc = "loop", ![Len(stack)].i = 1]
  /\ Entered(Top.c.r)
  /\ UNCHANGED <<disposables, isDisposing, wrapped, observer, ids>>
  /\ UNCHANGED <<pre, ops, nested, escaped, life, inserted>>

\* disposables.forEach(dispose): the next element is disposed
JoinEach ==
  /\ stack # <<>> /\ Top.c.op = "joined" /\ Top.pc = "loop"
  /\ Top.i <= Len(disposables[Top.c.r])
  /\ LET e == disposables[Top.c.r][Top.i]
     IN stack' = dispose([stack EXCEPT ![Len(stack)].i = Top.i + 1],
                         DisposeTarget(e.v), Top.c.r, e.k)
  /\ UNCHANGED <<disposables, isDisposing, wrapped, observer, ids, hist>>

\* disposables.forEach(dispose) returns
JoinEnd ==
  /\ stack # <<>> /\ Top.c.op = "joined" /\ Top.pc = "loop"
  /\ Top.i > Len(disposables[Top.c.r])
  /\ stack' = Pop(stack)
  /\ UNCHANGED <<disposables, isDisposing, wrapped, observer, ids, hist>>

\* extend: join(oldDispose, ...disposables)
OldLast(o, ds) == Append(ds, Bound(o))

OldFirst(o, ds) == <<Bound(o)>> \o ds

\* extend(o, ...ds): const oldDispose = o.dispose.bind(o);
\* o.dispose = join(oldDispose, ...ds)
Extend(o, ds) ==
  /\ CanCall /\ Called(Callee("extend", o, Undef, Undef))
  /\ disposables[ExtensionOf(o)] = <<>>
  /\ disposables' =
       [disposables EXCEPT
          ![ExtensionOf(o)] =
            [i \in 1..(Len(ds) + 1) |-> Entry(ArrayKey(i), OldFirst(o, ds)[i])]]
  /\ trace' = TraceBase
  /\ UNCHANGED <<isDisposing, wrapped, observer, ids, stack>>
  /\ UNCHANGED <<calls, escaped, inserted>>

\* the host program or a cleanup calls o.dispose()
MethodCall(o) ==
  /\ CanCall /\ Called(Callee("method", o, Undef, Undef))
  /\ stack' = Call(stack, DisposeMethod(o))
  /\ trace' = TraceBase
  /\ UNCHANGED <<disposables, isDisposing, wrapped, observer, ids>>
  /\ UNCHANGED <<calls, escaped, inserted>>

\* ------------------------------------------------------------------ make
\* make(executor) of a store, make(key, executor) of a map, make(executor)
\* of a disposableOne, make(executor, id) of a keyed store:
\* const disposable = executor(), which returns d
MakeFlushesFirst(r, k, d) ==
  /\ CanCall /\ Called(Callee("make", r, k, d))
  /\ disposables' = [disposables EXCEPT
                       ![r] = SelectSeq(@, LAMBDA e : e.k # k)]
  /\ stack' = Call(Append(stack, Frame(Callee("make", r, k, d), "executed",
                                       FALSE, Undef, Undef)),
                   Callee("executor", "x1", Undef, d))
  /\ trace' = TraceBase
  /\ UNCHANGED <<isDisposing, wrapped, observer, ids>>
  /\ UNCHANGED <<calls, escaped, inserted>>

Make(r, k, d) ==
  /\ CanCall /\ Called(Callee("make", r, k, d))
  /\ stack' = Call(Append(stack, Frame(Callee("make", r, k, d), "executed",
                                       FALSE, Undef, Undef)),
                   Callee("executor", "x1", Undef, d))
  /\ trace' = TraceBase
  /\ UNCHANGED <<disposables, isDisposing, wrapped, observer, ids>>
  /\ UNCHANGED <<calls, escaped, inserted>>

StoreMake(r, d) == Make(r, d, d)

MapMake(m, k, d) == Make(m, k, d)

OneMake(h, d) == Make(h, "current", d)

KeyedMake(r, d, id) == Make(r, id, d)

\* the executor starts to run
ExecEnter ==
  /\ stack # <<>> /\ Top.c.op = "executor" /\ Top.pc = "start"
  /\ stack' = Goto(stack, "body")
  /\ Entered(Top.c.r)
  /\ UNCHANGED <<disposables, isDisposing, wrapped, observer, ids>>
  /\ UNCHANGED <<pre, ops, nested, escaped, life, inserted>>

\* the executor returns its disposable
ExecReturn ==
  /\ stack # <<>> /\ Top.c.op = "executor" /\ Top.pc = "body"
  /\ stack' = Pop(stack)
  /\ UNCHANGED <<disposables, isDisposing, wrapped, observer, ids, hist>>

\* the executor throws: make has no try block
ExecThrow ==
  /\ stack # <<>> /\ Top.c.op = "executor" /\ Top.pc = "body"
  /\ stack' = Unwind(stack)
  /\ escaped' = (escaped \/ Uncaught(stack))
  /\ trace' = Append(trace, Event("throw", Top.by, Top.key, Top.c.r))
  /\ UNCHANGED <<disposables, isDisposing, wrapped, observer, ids>>
  /\ UNCHANGED <<calls, pre, ops, nested, life, inserted>>

\* make: if (disposable) return this.set(key, disposable), this.add(disposable),
\* this.set(disposable) or this.add(disposable, id); nothing for a falsy
\* disposable
MakeSet ==
  /\ stack # <<>> /\ Top.c.op = "make" /\ Top.pc = "executed"
  /\ IF Falsy(Top.c.d)
     THEN /\ stack' = Pop(stack)
          /\ UNCHANGED <<disposables, trace, inserted>>
     ELSE IF Top.c.r \in Maps
     THEN SetFlush(Pop(stack), Top.c.r, Top.c.k, Top.c.d)
     ELSE IF Top.c.r \in Stores
     THEN AddOne(Pop(stack), Top.c.r, Top.c.d)
     ELSE IF Top.c.r \in KeyedStores
     THEN KeyedAddFlush(Pop(stack), Top.c.r, Top.c.d, Top.c.k)
     ELSE SetOne(Pop(stack), Top.c.r, Top.c.d)
  /\ UNCHANGED <<isDisposing, wrapped, observer, ids>>
  /\ UNCHANGED <<calls, pre, ops, nested, escaped, life>>

\* ----------------------------------------------------------- abortable
\* the closure () => this.remove(key) that a registry subscribed; remove of
\* a keyed store looks the key up in _ids_
RemoveClosure ==
  /\ stack # <<>> /\ Top.c.op = "remove"
  /\ disposables' = [disposables EXCEPT
                       ![Top.c.r] =
                         ListDelete(@, IF Top.c.r \in KeyedStores
                                       THEN getId(Top.c.r, Top.c.k)
                                       ELSE Top.c.k,
                                    Walking(stack, Top.c.r))]
  /\ trace' = Append(trace, Event("notify", Top.c.r, Top.c.k, Top.by))
  /\ stack' = Pop(stack)
  /\ UNCHANGED <<isDisposing, wrapped, observer, ids>>
  /\ UNCHANGED <<calls, pre, ops, nested, escaped, life, inserted>>

\* abortable$abortable(onDispose): dispose(this._o)
KeepsPrevious(s, a) == s

DisposePrevious(s, a) == dispose(s, observer[a], a, Undef)

SubscribeNotify ==
  /\ stack # <<>> /\ Top.c.op = "subscribe" /\ Top.pc = "start"
  /\ stack' = DisposePrevious(Goto(stack, "assign"), Top.c.r)
  /\ UNCHANGED <<disposables, isDisposing, wrapped, observer, ids, hist>>

\* abortable$abortable(onDispose): this._o = onDispose
SubscribeAssign ==
  /\ stack # <<>> /\ Top.c.op = "subscribe" /\ Top.pc = "assign"
  /\ observer' = [observer EXCEPT ![Top.c.r] = Top.arg]
  /\ stack' = Pop(stack)
  /\ UNCHANGED <<disposables, isDisposing, wrapped, ids, hist>>

\* the abortable's body, first statement: abortable.abortable()
DisposesFirst(s, a) == dispose(s, DisposeTarget(wrapped[a]), a, Undef)

NotifiesFirst(s, a) == SubscribeCall(s, a, None)

AbortableNotify ==
  /\ stack # <<>> /\ Top.c.op = "abortable" /\ Top.pc = "start"
  /\ stack' = NotifiesFirst(Goto(stack, "notified"), Top.c.r)
  /\ Entered(Top.c.r)
  /\ UNCHANGED <<disposables, isDisposing, wrapped, observer, ids>>
  /\ UNCHANGED <<pre, ops, nested, escaped, life, inserted>>

\* the abortable's body: dispose(disposable), its result not yet assigned
AbortableDispose ==
  /\ stack # <<>> /\ Top.c.op = "abortable" /\ Top.pc = "notified"
  /\ stack' = dispose(Goto(stack, "assign"), DisposeTarget(wrapped[Top.c.r]),
                      Top.c.r, Undef)
  /\ UNCHANGED <<disposables, isDisposing, wrapped, observer, ids, hist>>

\* the abortable's body: disposable = (the undefined that dispose returned)
AbortableAssign ==
  /\ stack # <<>> /\ Top.c.op = "abortable" /\ Top.pc = "assign"
  /\ wrapped' = [wrapped EXCEPT ![Top.c.r] = Undef]
  /\ stack' = Pop(stack)
  /\ UNCHANGED <<disposables, isDisposing, observer, ids, hist>>

\* the host program or a cleanup invokes the abortable: a() or a.dispose()
Abort(a) ==
  /\ CanCall /\ Called(Callee("abortable", a, Undef, Undef))
  /\ stack' = Call(stack, Callee("abortable", a, Undef, Undef))
  /\ trace' = TraceBase
  /\ UNCHANGED <<disposables, isDisposing, wrapped, observer, ids>>
  /\ UNCHANGED <<calls, escaped, inserted>>

\* the host program or a cleanup subscribes a function: a.abortable(o)
Subscribe(a, o) ==
  /\ CanCall /\ Called(Callee("subscribe", a, Undef, o))
  /\ stack' = SubscribeCall(stack, a, Callee("fn", o, Undef, Undef))
  /\ trace' = TraceBase
  /\ UNCHANGED <<disposables, isDisposing, wrapped, observer, ids>>
  /\ UNCHANGED <<calls, escaped, inserted>>

\* ------------------------------------------------------- specifications
\* a function on the stack takes its next step
Within(A) == Len(stack) <= MaxDepth /\ A

\* the host program makes its next call, the n-th at most
Host(n, A) == AtTop /\ ops < n /\ A

\* Sequential use: the host program registers disposers, an abortable and the
\* map itself in a store and a map, and every cleanup returns or throws
\* without calling back into the library.
SeqObjects == {"p1", "p2", "a1"}

Next ==
  \/ Within(FnEnter) \/ Within(FnReturn) \/ Within(FnThrow)
  \/ Within(DisposeStart) \/ Within(DisposeEach) \/ Within(DisposeEnd)
  \/ Within(SetSubscribe) \/ Within(SetStore) \/ Within(RemoveClosure)
  \/ Within(SubscribeNotify) \/ Within(SubscribeAssign)
  \/ Within(AbortableNotify) \/ Within(AbortableDispose)
  \/ Within(AbortableAssign)
  \/ Within(ExecEnter) \/ Within(ExecReturn) \/ Within(MakeSet)
  \/ Host(MaxSeqOps, \E d \in SeqObjects \cup {"m1"} : StoreAdd("s1", d))
  \/ Host(MaxSeqOps, \E d \in SeqObjects : StoreRemove("s1", d))
  \/ Host(MaxSeqOps, \E d \in SeqObjects : StoreFlush("s1", d))
  \/ Host(MaxSeqOps, \E k \in Keys, d \in SeqObjects : MapSet("m1", k, d))
  \/ Host(MaxSeqOps, \E k \in Keys, d \in {"p2", Undef} : MapMake("m1", k, d))
  \/ Host(MaxSeqOps, \E k \in Keys : MapRemove("m1", k))
  \/ Host(MaxSeqOps, \E k \in Keys : MapFlush("m1", k))
  \/ Host(MaxSeqOps, \E r \in {"s1", "m1"} : Dispose(r))
  \/ Host(MaxSeqOps, \E r \in {"s1", "m1"} : FlushAll(r))
  \/ Host(MaxSeqOps, Abort("a1"))
  \/ Host(MaxSeqOps, Subscribe("a1", "o1"))

Spec == Init /\ [][Next]_vars

\* Keyed registration: the host program uses either a disposableMap or a
\* keyed store, registering, replacing and removing entries under keys.
Unused(r) == inserted[r] = <<>>

NextKeys ==
  \/ Within(FnEnter) \/ Within(FnReturn) \/ Within(FnThrow)
  \/ Within(SetSubscribe) \/ Within(SetStore) \/ Within(RemoveClosure)
  \/ Within(SubscribeNotify) \/ Within(SubscribeAssign)
  \/ Within(AbortableNotify) \/ Within(AbortableDispose)
  \/ Within(AbortableAssign)
  \/ Within(KeyedAddFlushId) \/ Within(KeyedAddStore)
  \/ Within(ExecEnter) \/ Within(ExecReturn) \/ Within(MakeSet)
  \/ Host(MaxOps, Unused("d1") /\ \E k \in Keys, d \in SeqObjects :
                                   MapSet("m1", k, d))
  \/ Host(MaxOps, Unused("d1") /\ \E k \in Keys : MapMake("m1", k, "p2"))
  \/ Host(MaxOps, Unused("d1") /\ \E k \in Keys : MapRemove("m1", k))
  \/ Host(MaxOps, Unused("m1") /\ \E id \in Ids, d \in SeqObjects :
                                   KeyedAdd("d1", d, id))
  \/ Host(MaxOps, Unused("m1") /\ \E id \in Ids : KeyedRemove("d1", id))

SpecKeys == Init /\ [][NextKeys]_vars

\* a cleanup that is running calls back into the library
Cleanup(A) == Len(stack) <= MaxDepth /\ InCleanup /\ nested < MaxNested /\ A

\* Re-entrant invocation: the host program subscribes observers to an
\* abortable, registers it in a store and invokes it, and the wrapped
\* disposer or an observer may invoke the abortable again while it runs.
NextAbort ==
  \/ Within(FnEnter) \/ Within(FnReturn) \/ Within(FnThrow)
  \/ Within(RemoveClosure)
  \/ Within(SubscribeNotify) \/ Within(SubscribeAssign)
  \/ Within(AbortableNotify) \/ Within(AbortableDispose)
  \/ Within(AbortableAssign)
  \/ Host(MaxOps, Abort("a1"))
  \/ Host(MaxOps, \E o \in Observers : Subscribe("a1", o))
  \/ Host(MaxOps, StoreAdd("s1", "a1"))
  \/ Host(MaxOps, StoreFlush("s1", "a1"))
  \/ Cleanup(Abort("a1"))

SpecAbort == Init /\ [][NextAbort]_vars

\* Re-entrant dispose: the host program fills a store and a map, the store
\* possibly holding the map, and disposes them; the cleanup of an entry may
\* call dispose() or flush() on a registry that is disposing at that moment.
\* The functions on the stack keep running until they return.
StepsReenter ==
  \/ Within(FnEnter) \/ Within(FnReturn) \/ Within(FnThrow)
  \/ Within(DisposeStart) \/ Within(DisposeEach) \/ Within(DisposeEnd)
  \/ Within(SetStore)

NextReenter ==
  \/ StepsReenter
  \/ Host(MaxSeqOps, \E d \in {"p1", "p2", "m1"} : StoreAdd("s1", d))
  \/ Host(MaxSeqOps, \E k \in Keys, d \in {"p1", "p2"} : MapSet("m1", k, d))
  \/ Host(MaxSeqOps, \E r \in {"s1", "m1"} : Dispose(r))
  \/ Host(MaxSeqOps, \E r \in {"s1", "m1"} : FlushAll(r))
  \/ Cleanup(\E r \in {"s1", "m1"} : Walking(stack, r) /\ Dispose(r))
  \/ Cleanup(\E r \in {"s1", "m1"} : Walking(stack, r) /\ FlushAll(r))

SpecReenter == Init /\ [][NextReenter]_vars /\ WF_vars(StepsReenter)

\* Subscription: the host program subscribes observers to an abortable,
\* registers it in two stores, a map and a disposableOne, one after another,
\* disposes them and invokes the abortable;
\* cleanups do not call back.
NextSubscribe ==
  \/ Within(FnEnter) \/ Within(FnReturn) \/ Within(FnThrow)
  \/ Within(DisposeStart) \/ Within(DisposeEach) \/ Within(DisposeEnd)
  \/ Within(SetSubscribe) \/ Within(SetStore) \/ Within(RemoveClosure)
  \/ Within(SubscribeNotify) \/ Within(SubscribeAssign)
  \/ Within(AbortableNotify) \/ Within(AbortableDispose)
  \/ Within(AbortableAssign)
  \/ Within(OneDisposeStart) \/ Within(OneSetStore) \/ Within(OneSetReturn)
  \/ Within(OneRemoveClosure)
  \/ Within(ExecEnter) \/ Within(ExecReturn) \/ Within(MakeSet)
  \/ Host(MaxSeqOps, \E d \in {"a1", "p1"} : OneSet("h1", d))
  \/ Host(MaxSeqOps, OneDispose("h1"))
  \/ Host(MaxSeqOps, \E o \in Observers : Subscribe("a1", o))
  \/ Host(MaxSeqOps, Abort("a1"))
  \/ Host(MaxSeqOps, \E r \in Stores, d \in {"a1", "p1"} : StoreAdd(r, d))
  \/ Host(MaxSeqOps, \E k \in Keys : MapSet("m1", k, "a1"))
  \/ Host(MaxSeqOps, \E k \in Keys : MapMake("m1", k, "a1"))
  \/ Host(MaxSeqOps, \E r \in Stores \cup Maps : Dispose(r))

SpecSubscribe == Init /\ [][NextSubscribe]_vars

\* Keyed store: the host program adds two disposers to a store created by
\* disposable(), under their own identity or under an id, removes and flushes
\* entries by disposer or by id and disposes the store; cleanups do not call
\* back.
KeyedObjects == {"p1", "p2"}

NextKeyed ==
  \/ Within(FnEnter) \/ Within(FnReturn) \/ Within(FnThrow)
  \/ Within(KeyedAddFlushId) \/ Within(KeyedAddStore)
  \/ Within(KeyedDisposeStart) \/ Within(KeyedDisposeEach)
  \/ Within(KeyedDisposeEnd)
  \/ Host(MaxSeqOps, \E d \in KeyedObjects, id \in Ids \cup {Undef} :
                       KeyedAdd("d1", d, id))
  \/ Host(MaxSeqOps, \E key \in KeyedObjects \cup Ids : KeyedRemove("d1", key))
  \/ Host(MaxSeqOps, \E key \in KeyedObjects \cup Ids : KeyedFlush("d1", key))
  \/ Host(MaxSeqOps, KeyedDispose("d1"))

SpecKeyed == Init /\ [][NextKeyed]_vars

\* Replacement: the host program makes and sets disposers, or nothing, in
\* a store, a map and a disposableOne, and disposes them; a cleanup returns
\* or throws and does not call back.
NextReplace ==
  \/ Within(FnEnter) \/ Within(FnReturn) \/ Within(FnThrow)
  \/ Within(DisposeStart) \/ Within(DisposeEach) \/ Within(DisposeEnd)
  \/ Within(SetStore)
  \/ Within(OneDisposeStart) \/ Within(OneSetStore) \/ Within(OneSetReturn)
  \/ Within(ExecEnter) \/ Within(ExecReturn) \/ Within(MakeSet)
  \/ Host(MaxSeqOps, \E d \in {"p1", Undef} : StoreMake("s1", d))
  \/ Host(MaxSeqOps, \E k \in Keys, d \in {"p1", "p2"} : MapSet("m1", k, d))
  \/ Host(MaxSeqOps, \E k \in Keys, d \in {"p3", Undef} : MapMake("m1", k, d))
  \/ Host(MaxSeqOps, \E d \in {"p1", "p2", Undef} : OneSet("h1", d))
  \/ Host(MaxSeqOps, \E d \in {"p3", Undef} : OneMake("h1", d))
  \/ Host(MaxSeqOps, \E r \in {"s1", "m1"} : Dispose(r))
  \/ Host(MaxSeqOps, OneDispose("h1"))

SpecReplace == Init /\ [][NextReplace]_vars

\* Distinct disposers: the host program sets and makes disposers, or nothing,
\* in a disposableOne, each disposer at most once, and disposes the holder; a
\* cleanup returns or throws and does not call back.
Fresh(d) == IF d = Undef THEN TRUE ELSE life[d].phase = "new"

NextDistinct ==
  \/ Within(FnEnter) \/ Within(FnReturn) \/ Within(FnThrow)
  \/ Within(OneDisposeStart) \/ Within(OneSetStore) \/ Within(OneSetReturn)
  \/ Within(ExecEnter) \/ Within(ExecReturn) \/ Within(MakeSet)
  \/ Host(MaxOps, \E d \in Plain \cup {Undef} : Fresh(d) /\ OneSet("h1", d))
  \/ Host(MaxOps, \E d \in Plain \cup {Undef} : Fresh(d) /\ OneMake("h1", d))
  \/ Host(MaxOps, OneDispose("h1"))

SpecDistinct == Init /\ [][NextDistinct]_vars

\* Holder of an abortable: the host program creates a disposableOne with an
\* abortable or sets or makes the abortable or a disposer in it, disposes the
\* holder and invokes the abortable; cleanups do not call back.
NextHolder ==
  \/ Within(FnEnter) \/ Within(FnReturn) \/ Within(FnThrow)
  \/ Within(OneDisposeStart) \/ Within(OneSetStore) \/ Within(OneSetReturn)
  \/ Within(OneRemoveClosure)
  \/ Within(SubscribeNotify) \/ Within(SubscribeAssign)
  \/ Within(AbortableNotify) \/ Within(AbortableDispose)
  \/ Within(AbortableAssign)
  \/ Within(ExecEnter) \/ Within(ExecReturn) \/ Within(MakeSet)
  \/ Host(MaxOps, OneCreate("h1", "a1"))
  \/ Host(MaxOps, \E d \in {"a1", "p1", Undef} : OneSet("h1", d))
  \/ Host(MaxOps, OneMake("h1", "a1"))
  \/ Host(MaxOps, OneDispose("h1"))
  \/ Host(MaxOps, Abort("a1"))

SpecHolder == Init /\ [][NextHolder]_vars

\* Invocation: the host program disposes a function, a function with a
\* dispose method or nothing through dispose(), registers them in a store
\* and flushes or disposes it, and joins up to MaxJoin of them and calls the
\* joined disposer; a cleanup returns or throws and does not call back.
Invocable == {"p1", "p2", "c1"}

JoinArgs == UNION {[1..n -> Invocable] : n \in 1..MaxJoin}

NextDispose ==
  \/ Within(FnEnter) \/ Within(FnReturn) \/ Within(FnThrow)
  \/ Within(DisposeStart) \/ Within(DisposeEach) \/ Within(DisposeEnd)
  \/ Within(JoinStart) \/ Within(JoinEach) \/ Within(JoinEnd)
  \/ Host(MaxSeqOps, \E d \in {"p1", "c1", Undef} : UtilsDispose(d))
  \/ Host(MaxSeqOps, \E d \in {"p1", "c1"} : StoreAdd("s1", d))
  \/ Host(MaxSeqOps, \E d \in {"p1", "c1"} : StoreFlush("s1", d))
  \/ Host(MaxSeqOps, Dispose("s1"))
  \/ Host(MaxSeqOps, \E ds \in JoinArgs : JoinMake("j1", ds))
  \/ Host(MaxSeqOps, JoinCall("j1"))

SpecDispose == Init /\ [][NextDispose]_vars

\* Extension: the host program extends the dispose method of an object with
\* up to MaxJoin disposers, calls the method, and disposes the object
\* through dispose() and through a store; a cleanup returns or throws and
\* does not call back.
ExtendArgs == UNION {[1..n -> {"p1", "p2"}] : n \in 1..MaxJoin}

NextExtend ==
  \/ Within(FnEnter) \/ Within(FnReturn) \/ Within(FnThrow)
  \/ Within(DisposeStart) \/ Within(DisposeEach) \/ Within(DisposeEnd)
  \/ Within(JoinStart) \/ Within(JoinEach) \/ Within(JoinEnd)
  \/ Host(MaxSeqOps, \E ds \in ExtendArgs : Extend("c1", ds))
  \/ Host(MaxSeqOps, MethodCall("c1"))
  \/ Host(MaxSeqOps, UtilsDispose("c1"))
  \/ Host(MaxSeqOps, StoreAdd("s1", "c1"))
  \/ Host(MaxSeqOps, Dispose("s1"))

SpecExtend == Init /\ [][NextExtend]_vars

\* Calls within dispose: the host program fills a store and a map and
\* disposes them; the cleanup of an entry may flush, remove or register an
\* entry of the registry that is disposing at that moment.
WithinObjects == {"p1", "p2"}

\* a cleanup that is running calls back into the library, in SpecInside
Inside(A) == Len(stack) <= MaxDepth /\ InCleanup /\ nested < MaxInside /\ A

NextInside ==
  \/ Within(FnEnter) \/ Within(FnReturn) \/ Within(FnThrow)
  \/ Within(DisposeStart) \/ Within(DisposeEach) \/ Within(DisposeEnd)
  \/ Within(SetStore)
  \/ Host(MaxInsideOps, \E d \in WithinObjects : StoreAdd("s1", d))
  \/ Host(MaxInsideOps, \E k \in Keys, d \in WithinObjects : MapSet("m1", k, d))
  \/ Host(MaxInsideOps, \E r \in {"s1", "m1"} : Dispose(r))
  \/ Inside(Walking(stack, "s1")
              /\ \E d \in WithinObjects \cup {"p3"} : StoreFlush("s1", d))
  \/ Inside(Walking(stack, "m1") /\ \E k \in Keys : MapFlush("m1", k))
  \/ Inside(Walking(stack, "s1")
              /\ \E d \in WithinObjects \cup {"p3"} : StoreAdd("s1", d))
  \/ Inside(Walking(stack, "m1")
              /\ \E k \in Keys, d \in WithinObjects \cup {"p3"} :
                   MapSet("m1", k, d))
  \/ Inside(Walking(stack, "s1")
              /\ \E d \in WithinObjects : StoreRemove("s1", d))
  \/ Inside(Walking(stack, "m1") /\ \E k \in Keys : MapRemove("m1", k))

SpecInside == Init /\ [][NextInside]_vars

\* Registration within a flush: the host program sets disposers in a map and
\* in a disposableOne; the cleanup of an entry that a set is flushing may set
\* or make another disposer in the same registry.
NextOverwrite ==
  \/ Within(FnEnter) \/ Within(FnReturn) \/ Within(FnThrow)
  \/ Within(SetStore)
  \/ Within(OneDisposeStart) \/ Within(OneSetStore) \/ Within(OneSetReturn)
  \/ Within(ExecEnter) \/ Within(ExecReturn) \/ Within(MakeSet)
  \/ Host(MaxSeqOps, \E k \in Keys, d \in {"p1", "p2"} : MapSet("m1", k, d))
  \/ Host(MaxSeqOps, \E d \in {"p1", "p2"} : OneSet("h1", d))
  \/ Cleanup(Top.by = "m1" /\ \E k \in Keys : MapSet("m1", k, "p3"))
  \/ Cleanup(Top.by = "m1" /\ \E k \in Keys : MapMake("m1", k, "p3"))
  \/ Cleanup(Top.by = "h1" /\ OneSet("h1", "p3"))
  \/ Cleanup(Top.by = "h1" /\ OneMake("h1", "p3"))

SpecOverwrite == Init /\ [][NextOverwrite]_vars

\* Keyed make: the host program makes disposers under keys of a map, in a
\* disposableOne and under ids of a keyed store; the executor returns a
\* disposer or throws; a cleanup returns or throws and does not call back.
MakeObjects == {"p1", "p2"}

NextMake ==
  \/ Within(FnEnter) \/ Within(FnReturn) \/ Within(FnThrow)
  \/ Within(SetStore)
  \/ Within(OneDisposeStart) \/ Within(OneSetStore) \/ Within(OneSetReturn)
  \/ Within(KeyedAddFlushId) \/ Within(KeyedAddStore)
  \/ Within(ExecEnter) \/ Within(ExecReturn) \/ Within(ExecThrow)
  \/ Within(MakeSet)
  \/ Host(MaxSeqOps, \E k \in Keys, d \in MakeObjects : MapMake("m1", k, d))
  \/ Host(MaxSeqOps, \E d \in MakeObjects : OneMake("h1", d))
  \/ Host(MaxSeqOps, \E d \in MakeObjects, id \in Ids : KeyedMake("d1", d, id))

SpecMake == Init /\ [][NextMake]_vars

\* Registration cycles: the host program registers two stores and a map in
\* one another, and disposers in them, and disposes them; cleanups do not
\* call back. The functions on the stack keep running until they return.
StepsCycle ==
  \/ Within(FnEnter) \/ Within(FnReturn) \/ Within(FnThrow)
  \/ Within(DisposeStart) \/ Within(DisposeEach) \/ Within(DisposeEnd)
  \/ Within(SetStore)

NextCycle ==
  \/ StepsCycle
  \/ Host(MaxCycleOps, \E r \in Stores, d \in Stores \cup {"m1", "p1"} :
                         StoreAdd(r, d))
  \/ Host(MaxCycleOps, \E k \in Keys, d \in {"s1", "p1"} : MapSet("m1", k, d))
  \/ Host(MaxCycleOps, \E r \in Stores \cup Maps : Dispose(r))

SpecCycle == Init /\ [][NextCycle]_vars /\ WF_vars(StepsCycle)

\* --------------------------------------------------------------- claims
\* invocations of d since it was registered
Invocations(d) == calls[d] - life[d].base

\* C1: a disposable registered once in a store or map by the host program and
\* not removed, after which the host program only makes flush(entry), flush()
\* and dispose() calls, is invoked at most once, and exactly once as soon as
\* a call that covers its registration has returned, however many follow.
C1_InvokedOnce ==
  \A d \in Tracked :
    life[d].phase \in {"held", "covered"} =>
      /\ Invocations(d) <= 1
      /\ d \in Abortables => calls[InnerOf(d)] <= 1
      /\ (life[d].phase = "covered" /\ AtTop) => Invocations(d) = 1

\* an abortable that three covering calls have addressed
C1_Witness ==
  /\ AtTop
  /\ \E d \in Abortables :
       /\ life[d].phase = "covered" /\ life[d].covers >= 3
       /\ Invocations(d) = 1 /\ calls[InnerOf(d)] = 1

\* times the registry (or abortable) by invoked d as its entry under key k
\* during the current top-level call
CallsBy(by, k, d) ==
  Cardinality({n \in 1..Len(trace) : trace[n] = Event("call", by, k, d)})

Threw == \E n \in 1..Len(trace) : trace[n].e = "throw"

\* the host program's call op(r) without a key has returned
Returned(op, r) ==
  AtTop /\ pre.c.op = op /\ pre.c.r = r /\ pre.c.k = Undef

\* the current top-level call made no re-entrant call
Plainly == nested = pre.nested

\* C2: when a cleanup throws during dispose() or flush() of a registry whose
\* cleanups do not call back into the library, every entry of the registry
\* has still been invoked exactly once when the call returns, the registry is
\* empty and out of its disposing state, and no error reached the caller.
C2_ErrorIsolation ==
  \A r \in Registries :
    ((Returned("dispose", r) \/ Returned("flush", r)) /\ Threw /\ Plainly) =>
      /\ \A n \in 1..Len(pre.disposables[r]) :
           CallsBy(r, pre.disposables[r][n].k, pre.disposables[r][n].v) = 1
      /\ disposables[r] = <<>>
      /\ isDisposing[r] = 0
      /\ ~escaped

\* dispose() has returned from a registry of three entries, the first of
\* which threw
C2_Witness ==
  /\ \E r \in Registries :
       /\ Returned("dispose", r)
       /\ Len(pre.disposables[r]) = 3
       /\ \E n \in 1..Len(trace) :
            /\ trace[n] = Event("throw", r, pre.disposables[r][1].k,
                                pre.disposables[r][1].v)
            /\ \E h \in (n + 1)..Len(trace) : trace[h].e = "call"

\* no key of a registry holds two entries
OneEntryPerKey ==
  \A r \in Registries : \A i, j \in 1..Len(disposables[r]) :
    (disposables[r][i].k = disposables[r][j].k /\ disposables[r][i].k # Empty)
      => i = j

\* d is the value of a live entry of the list l
Registered(l, d) == \E n \in 1..Len(l) : l[n].k # Empty /\ l[n].v = d

\* the place of the first event e in the current trace, 0 if there is none
Place(e) ==
  IF \E n \in 1..Len(trace) : trace[n] = e
  THEN CHOOSE n \in 1..Len(trace) :
         trace[n] = e /\ \A h \in 1..(n - 1) : trace[h] # e
  ELSE 0

\* the host program's set(key, p2), make(key, () => p2) or add(p2, id) on r
\* has returned, and the key held another disposable when the call was made
Replaced(r) ==
  /\ AtTop
  /\ pre.c.op \in {"set", "make", "add"} /\ pre.c.r = r
  /\ pre.c.k \in Keys \cup Ids /\ pre.c.d # Undef
  /\ ListHas(pre.disposables[r], pre.c.k)
  /\ ~Registered(pre.disposables[r], pre.c.d)

\* C3: registering p2, not currently registered, under a key of a
\* disposableMap or keyed store that holds p1 invokes p1 exactly once before
\* p2 is stored; afterwards the key holds p2, size() is unchanged and p2 was
\* not invoked; and no key ever holds more than one entry.
C3_KeyUniqueness ==
  /\ OneEntryPerKey
  /\ \A r \in Maps \cup KeyedStores :
       Replaced(r) =>
         LET key == pre.c.k
             p1 == ListGet(pre.disposables[r], key)
             p2 == pre.c.d
         IN /\ CallsBy(r, key, p1) = 1
            /\ Place(Event("call", r, key, p1)) < Place(Event("store", r, key, p2))
            /\ ListGet(disposables[r], key) = p2
            /\ ListSize(disposables[r]) = ListSize(pre.disposables[r])
            /\ calls[p2] = pre.calls[p2]

\* the keys of the entries that r invoked during the current top-level call,
\* in the order of the invocations
CallOrder(r) ==
  LET es == SelectSeq(trace, LAMBDA e : e.e = "call" /\ e.r = r)
  IN [n \in 1..Len(es) |-> es[n].k]

\* the keys that r held when the current top-level call was made, each at
\* the place of its latest insertion
InsertionOrder(r) ==
  SelectSeq(inserted[r], LAMBDA k : ListHas(pre.disposables[r], k))

\* C4: when dispose() (or flush() without a key) of a disposableStore or
\* disposableMap whose cleanups do not call back into the library returns, it
\* has invoked the entries that were live in the order of their insertion,
\* an entry that replaced another under a map key counting from its own,
\* latest insertion.
C4_InsertionOrder ==
  \A r \in Stores \cup Maps :
    (Returned("dispose", r) \/ Returned("flush", r)) =>
      CallOrder(r) = InsertionOrder(r)

\* dispose() has returned from a map in which p1 was first set under k1 and
\* then under k2, after which p2 replaced it under k1: k2 was invoked first
C4_Witness ==
  /\ Returned("dispose", "m1")
  /\ pre.disposables["m1"] = <<Entry(Zero, "p1"), Entry("k1", "p2")>>
  /\ life["p1"].key = "k1" /\ pre.calls["p1"] = 1
  /\ CallOrder("m1") = <<Zero, "k1">>

\* the host program's direct invocation of the abortable a has returned
Aborted(a) == AtTop /\ pre.c = Callee("abortable", a, Undef, Undef)

\* C8: when the host program's direct invocation of an abortable that was a
\* live entry of a disposableStore or disposableMap R returns, R has no entry
\* under its key, size() of R is one less, and the wrapped disposer has been
\* invoked exactly once; no later flush or dispose invokes it again.
C8_AbortableDetach ==
  \A a \in Abortables :
    /\ calls[InnerOf(a)] <= 1
    /\ Aborted(a) =>
         /\ calls[InnerOf(a)] = 1
         /\ \A r \in Stores \cup Maps : \A n \in 1..Len(pre.disposables[r]) :
              pre.disposables[r][n].v = a =>
                /\ ~ListHas(disposables[r], pre.disposables[r][n].k)
                /\ ~Registered(disposables[r], a)
                /\ ListSize(disposables[r]) = ListSize(pre.disposables[r]) - 1

\* the direct invocation of an abortable that was the second of two entries
\* of a store has returned
C8_Witness ==
  /\ Aborted("a1")
  /\ pre.disposables["s1"] = <<Entry("p1", "p1"), Entry("a1", "a1")>>
  /\ ListSize(disposables["s1"]) = 1
  /\ calls["w1"] = 1

\* the event of the observer o of the abortable a being notified
Notified(a, o) ==
  IF o.op \in {"remove", "oneRemove"} THEN Event("notify", o.r, o.k, a)
  ELSE Event("call", a, Undef, o.r)

\* C10: the wrapped disposer of an abortable runs only while the abortable
\* has no subscription, and after the observer that was subscribed when the
\* host program made the call has been invoked.
C10_ObserverFirst ==
  \A a \in Abortables :
    /\ \A n \in 1..Len(stack) :
         (stack[n].c.op = "fn" /\ stack[n].c.r = InnerOf(a) /\ stack[n].by = a)
           => observer[a] = None
    /\ \A n \in 1..Len(trace) :
         (trace[n] = Event("call", a, Undef, InnerOf(a)) /\ pre.observer[a] # None)
           => Place(Notified(a, pre.observer[a])) \in 1..(n - 1)

\* the wrapped disposer is running in a direct invocation of an abortable
\* whose subscribed observer o1 has run before
C10_Witness ==
  /\ InCleanup /\ Top.c.r = "w1" /\ Top.by = "a1"
  /\ pre.c = Callee("abortable", "a1", Undef, Undef)
  /\ pre.observer["a1"] = Callee("fn", "o1", Undef, Undef)
  /\ Place(Event("call", "a1", Undef, "o1")) = 2
  /\ Place(Event("call", "a1", Undef, "w1")) = 3

\* C9: over all invocations of an abortable, those made while an earlier one
\* is still running included, the wrapped disposer is invoked at most once,
\* and exactly once as soon as an invocation has returned; an invocation made
\* by the host program while nothing is subscribed notifies no observer.
C9_WrappedOnce ==
  \A a \in Abortables :
    /\ calls[InnerOf(a)] <= 1
    /\ (AtTop /\ calls[a] >= 1) => calls[InnerOf(a)] = 1
    /\ (Aborted(a) /\ pre.observer[a] = None) =>
         \A n \in 1..Len(trace) :
           trace[n].e = "notify" \/ trace[n].d \in Plain \cup Inner
             \/ trace[n].d \in Abortables

\* the dispose function of a registry that is being walked has been entered
Reentered ==
  /\ stack # <<>> /\ Top.c.op = "dispose" /\ Top.pc = "start"
  /\ Walking(stack, Top.c.r)

\* the step of a re-entered dispose function: it returns, and no entry is
\* invoked or removed
ReenteredReturns ==
  Reentered =>
    /\ stack' = Pop(stack)
    /\ disposables' = disposables /\ isDisposing' = isDisposing
    /\ \A x \in Fns \cup Abortables : calls'[x] = calls[x]

\* during a dispose() or flush() of r made by the host program no entry is
\* invoked twice, and when it returns every entry has been invoked once and
\* r is empty and idle
OuterCompletes ==
  \A r \in Stores \cup Maps :
    (pre.c.op \in {"dispose", "flush"} /\ pre.c.r = r /\ pre.c.k = Undef) =>
      /\ \A n \in 1..Len(pre.disposables[r]) :
           /\ CallsBy(r, pre.disposables[r][n].k, pre.disposables[r][n].v) <= 1
           /\ AtTop =>
                CallsBy(r, pre.disposables[r][n].k, pre.disposables[r][n].v) = 1
      /\ AtTop => (disposables[r] = <<>> /\ isDisposing[r] = 0)

\* C5: a dispose() or flush() that a cleanup calls on a registry that is
\* disposing returns without invoking anything, and the outer dispose()
\* invokes every entry exactly once and returns.
C5_ReentrantDispose ==
  /\ [][ReenteredReturns]_vars
  /\ []OuterCompletes
  /\ []((~AtTop) => <>AtTop)

\* dispose() of a store of two disposers has returned after a cleanup
\* re-entered it
C5_Witness ==
  /\ Returned("dispose", "s1")
  /\ Len(pre.disposables["s1"]) = 2
  /\ nested = pre.nested + 1
  /\ calls["s1"] = pre.calls["s1"] + 2
  /\ \A n \in 1..2 : CallsBy("s1", pre.disposables["s1"][n].k,
                                pre.disposables["s1"][n].v) = 1

\* the registries that are entries of r among the registrations ds
Holds(ds, r) == {x \in Registries : Registered(ds[r], x)}

\* the registries reached from those of S by following entries
RECURSIVE Reach(_, _)
Reach(ds, S) ==
  LET T == S \cup UNION {Holds(ds, r) : r \in S}
  IN IF T = S THEN S ELSE Reach(ds, T)

\* the registries that lie on a registration cycle through r
CycleOf(ds, r) ==
  {x \in Reach(ds, Holds(ds, r)) : r \in Reach(ds, Holds(ds, x))}

\* the host program's dispose() of r, a registry on a registration cycle
DisposesCycle(r) ==
  pre.c = Callee("dispose", r, Undef, Undef) /\ CycleOf(pre.disposables, r) # {}

\* no registry is walked by two dispose() calls at once
WalkedOnce ==
  \A r \in Registries :
    Cardinality({n \in 1..Len(stack) :
                   stack[n].c.op = "dispose" /\ stack[n].c.r = r
                     /\ stack[n].pc = "loop"}) <= 1

\* C6: dispose() on a registry of a registration cycle walks no registry
\* twice at once and returns, and then every registry of the cycle has
\* size() = 0.
C6_CycleTerminates ==
  /\ []WalkedOnce
  /\ [](\A r \in Stores \cup Maps : (DisposesCycle(r) /\ AtTop) =>
          \A x \in CycleOf(pre.disposables, r) : ListSize(disposables[x]) = 0)
  /\ \A r \in Stores \cup Maps : [](DisposesCycle(r) => <>AtTop)

\* dispose() has returned on the store of the cycle s1 -> s2 -> m1 -> s1
C6_Witness ==
  /\ Returned("dispose", "s1")
  /\ Holds(pre.disposables, "s1") = {"s2"}
  /\ Holds(pre.disposables, "s2") = {"m1"}
  /\ Holds(pre.disposables, "m1") = {"s1"}
  /\ \A x \in {"s1", "s2", "m1"} : ListSize(disposables[x]) = 0

\* times the dispose() of x ran to its end during the current top-level call
Passes(x) ==
  Cardinality({n \in 1..Len(trace) : trace[n] = Event("clear", x, Undef, Undef)})

\* each registry on the cycle through r holds one registry, the next
Ring(ds, r) ==
  \A x \in CycleOf(ds, r) :
    Cardinality({n \in 1..Len(ds[x]) : ds[x][n].v \in Registries}) = 1

Times(e) == Cardinality({n \in 1..Len(trace) : trace[n] = e})

\* the host program's call a.abortable(o) on an abortable that has an observer
Subscribing(a) ==
  pre.c.op = "subscribe" /\ pre.c.r = a /\ pre.observer[a] # None

\* C11: a.abortable(o) on an abortable that has an observer invokes that
\* observer once, before o is installed, and invokes neither the wrapped
\* disposer nor o; when it returns o is the observer.  A later invocation of
\* the abortable by the host program notifies the observer it then has, once,
\* and no other.
C11_Supersede ==
  \A a \in Abortables :
    /\ Subscribing(a) =>
         LET prev == pre.observer[a]
             new == Callee("fn", pre.c.d, Undef, Undef)
         IN /\ Times(Notified(a, prev)) <= 1
            /\ observer[a] # prev => Times(Notified(a, prev)) = 1
            /\ AtTop => (Times(Notified(a, prev)) = 1 /\ observer[a] = new)
            /\ calls[InnerOf(a)] = pre.calls[InnerOf(a)]
            /\ new # prev => calls[pre.c.d] = pre.calls[pre.c.d]
    /\ (Aborted(a) /\ pre.observer[a] # None) =>
         /\ Times(Notified(a, pre.observer[a])) = 1
         /\ \A n \in 1..Len(trace) :
              trace[n].e = "notify" => trace[n] = Notified(a, pre.observer[a])
         /\ \A o \in Observers :
              Callee("fn", o, Undef, Undef) # pre.observer[a]
                => calls[o] = pre.calls[o]

\* the invocation of an abortable has returned that notified o2 and ran the
\* wrapped disposer, o1 having been invoked when o2 superseded it
C11_Witness ==
  /\ Aborted("a1")
  /\ pre.observer["a1"] = Callee("fn", "o2", Undef, Undef)
  /\ CallsBy("a1", Undef, "w1") = 1 /\ CallsBy("a1", Undef, "o2") = 1
  /\ calls["o1"] = 1 /\ calls["o2"] = 1

\* the live entries of the registry r whose value is d, as <<registry, key>>
EntriesOf(ds, r, d) ==
  {<<r, ds[r][n].k>> : n \in {h \in 1..Len(ds[r]) : ds[r][h].k # Empty
                                                     /\ ds[r][h].v = d}}

\* the host program's add, set or make of the abortable a in R2, made while a
\* was an entry of another registry R1, has returned
Moved(a, R1, R2) ==
  /\ AtTop /\ R1 # R2
  /\ pre.c.op \in {"add", "set", "make"} /\ pre.c.r = R2 /\ pre.c.d = a
  /\ Registered(pre.disposables[R1], a)

\* C12: registering in R2 an abortable that is an entry of another store,
\* map or disposableOne R1 removes it from R1 and stores it in R2 without
\* invoking it; between the host program's calls an abortable is an entry of
\* at most one registry; and its invocation by the host program notifies
\* only the registry that holds it.
C12_OneRegistry ==
  \A a \in Abortables :
    /\ \A R1, R2 \in Stores \cup Maps \cup Ones :
         Moved(a, R1, R2) =>
           /\ ~Registered(disposables[R1], a)
           /\ Registered(disposables[R2], a)
           /\ calls[a] = pre.calls[a]
           /\ calls[InnerOf(a)] = pre.calls[InnerOf(a)]
    /\ AtTop =>
         Cardinality(UNION {EntriesOf(disposables, r, a) :
                              r \in Stores \cup Maps \cup Ones}) <= 1
    /\ Aborted(a) =>
         \A n \in 1..Len(trace) :
           trace[n].e = "notify" =>
             <<trace[n].r, trace[n].k>> \in
               EntriesOf(pre.disposables, trace[n].r, a)

\* the invocation of an abortable has returned that was added to s1, then
\* to s2, and notified s2
C12_Witness ==
  /\ Aborted("a1")
  /\ Registered(pre.disposables["s2"], "a1")
  /\ inserted["s1"] = <<"a1">>
  /\ Times(Event("notify", "s2", "a1", "a1")) = 1
  /\ calls["w1"] = 1

\* the host program's remove on r has returned
RemoveReturned(r) == AtTop /\ pre.c.op = "remove" /\ pre.c.r = r

\* what remove reports for the key k of r: true or false on a store, the
\* removed disposable or undefined on a map
Reports(r, k) ==
  IF r \in Maps THEN ListGet(pre.disposables[r], k)
  ELSE IF ListHas(pre.disposables[r], k) THEN "true" ELSE "false"

\* C13: remove on a store or map invokes nothing, reports the removal exactly
\* when the entry was live, deletes that entry only and changes nothing
\* else; a flush or dispose by the host program invokes, as entries of its
\* registry, only what the registry held when the call was made; and no call
\* other than add, set and make gives a registry an entry.
C13_RemoveOnly ==
  \A r \in Stores \cup Maps :
    /\ RemoveReturned(r) =>
         /\ calls = pre.calls
         /\ trace = <<Event("return", r, pre.c.k, Reports(r, pre.c.k))>>
         /\ disposables =
              [pre.disposables EXCEPT
                 ![r] = SelectSeq(@, LAMBDA e : e.k # pre.c.k)]
         /\ observer = pre.observer /\ wrapped = pre.wrapped
         /\ isDisposing = [x \in Registries |-> 0]
    /\ (pre.c.op \in {"flush", "dispose"} /\ pre.c.r = r) =>
         \A n \in 1..Len(trace) :
           (trace[n].e = "call" /\ trace[n].r = r) =>
             /\ ListHas(pre.disposables[r], trace[n].k)
             /\ ListGet(pre.disposables[r], trace[n].k) = trace[n].d
    /\ pre.c.op \notin {"add", "set", "make"} =>
         \A n \in 1..Len(disposables[r]) :
           disposables[r][n].k # Empty =>
             \E h \in 1..Len(pre.disposables[r]) :
               pre.disposables[r][h] = disposables[r][n]

\* dispose() has returned on a store to which p1 and p2 were added and from
\* which p1 was removed: it invoked p2 and not p1
C13_Witness ==
  /\ Returned("dispose", "s1")
  /\ inserted["s1"] = <<"p1", "p2">>
  /\ calls["p1"] = 0 /\ CallsBy("s1", "p2", "p2") = 1

\* the frame n of the stack runs an entry that the forEach of the dispose()
\* of a store or map invoked
InvokedByDispose(n) ==
  /\ n > 1 /\ stack[n].by \in Stores \cup Maps
  /\ stack[n - 1].c = Callee("dispose", stack[n].by, Undef, Undef)
  /\ stack[n - 1].pc = "loop"

\* C14: while dispose() of a store or map runs an entry, the registry has
\* none of its entries any more: has(entry) is false for the one that runs
\* and size() is 0.
C14_ClearedFirst ==
  \A n \in 1..Len(stack) :
    InvokedByDispose(n) =>
      /\ ~ListHas(disposables[stack[n].by], stack[n].key)
      /\ ListSize(disposables[stack[n].by]) = 0

\* the frame n of the stack runs the entry that the host program's flush of
\* one key of a store or map invoked
InvokedByFlush(n) ==
  /\ pre.c.op = "flush" /\ pre.c.k # Undef
  /\ pre.c.r \in Stores \cup Maps
  /\ stack[n].by = pre.c.r /\ stack[n].key = pre.c.k

\* C15: while flush(key) of a store or map runs the entry it flushes, the
\* registry does not have the key: has(key) is false, the lookup returns
\* undefined and size() is one less than before the call.
C15_FlushRemovesFirst ==
  \A n \in 1..Len(stack) :
    InvokedByFlush(n) =>
      /\ ~ListHas(disposables[pre.c.r], pre.c.k)
      /\ ListGet(disposables[pre.c.r], pre.c.k) = Undef
      /\ ListSize(disposables[pre.c.r]) = ListSize(pre.disposables[pre.c.r]) - 1

\* the cleanup flushed from the key k1 of a map of two entries is running
C15_Witness ==
  /\ InCleanup /\ InvokedByFlush(Len(stack))
  /\ pre.c = Callee("flush", "m1", "k1", Undef)
  /\ ListSize(pre.disposables["m1"]) = 2
  /\ ListSize(disposables["m1"]) = 1

\* C16: a store or map is disposing exactly while a dispose() call on it is
\* past its guard and has not returned; whenever the host program is between
\* calls it is idle, also after cleanups threw or called dispose() again;
\* an add or set made then is stored, and every dispose() by the host
\* program, the first and the later ones, invokes each entry once and empties
\* the registry.
C16_IdleAgain ==
  \A r \in Stores \cup Maps :
    /\ IsDisposing(r) <=> Walking(stack, r)
    /\ AtTop => ~IsDisposing(r)
    /\ (AtTop /\ pre.c.op \in {"add", "set"} /\ pre.c.r = r) =>
         ListGet(disposables[r], pre.c.k) = pre.c.d
    /\ Returned("dispose", r) =>
         /\ \A n \in 1..Len(pre.disposables[r]) :
              CallsBy(r, pre.disposables[r][n].k, pre.disposables[r][n].v) = 1
         /\ disposables[r] = <<>>

\* a dispose() of a store has returned and invoked the entry added after an
\* earlier dispose(), which a cleanup had re-entered
C16_Witness ==
  /\ Returned("dispose", "s1")
  /\ pre.calls["s1"] = 2 /\ pre.nested = 1 /\ pre.calls["p1"] = 1
  /\ pre.disposables["s1"] = <<Entry("p2", "p2")>>
  /\ CallsBy("s1", "p2", "p2") = 1
  /\ ~IsDisposing("s1")

\* the host program's add(d) without a key, or add(d, id), on the keyed
\* store r has returned
AddedByIdentity(r) ==
  AtTop /\ pre.c.op = "add" /\ pre.c.r = r /\ pre.c.k = pre.c.d

AddedById(r) ==
  AtTop /\ pre.c.op = "add" /\ pre.c.r = r /\ pre.c.k \in Ids

\* C17: on the keyed store, add(d) without a key of a disposable that is a
\* live entry under its own identity invokes d exactly once, and when it
\* returns size() is what it was and has(d) is true.
C17_ReAddFlushes ==
  \A r \in KeyedStores :
    (AddedByIdentity(r) /\ ListGet(pre.disposables[r], pre.c.d) = pre.c.d) =>
      /\ calls[pre.c.d] = pre.calls[pre.c.d] + 1
      /\ ListSize(disposables[r]) = ListSize(pre.disposables[r])
      /\ KeyedHas(r, pre.c.d)

\* C18: on the keyed store, add(d, id) of a disposable that is an entry
\* under its own identity, with no entry under id, invokes nothing and leaves
\* both entries; and has(d) and get(d) never reach an entry that was stored
\* under an id only.
C18_IndependentRecords ==
  \A r \in KeyedStores :
    /\ (AddedById(r) /\ ListGet(pre.disposables[r], pre.c.d) = pre.c.d
          /\ ~ListHas(pre.disposables[r], pre.c.k)) =>
         /\ calls = pre.calls
         /\ ListSize(disposables[r]) = ListSize(pre.disposables[r]) + 1
         /\ ListGet(disposables[r], pre.c.d) = pre.c.d
         /\ ListGet(disposables[r], pre.c.k) = pre.c.d
    /\ AtTop =>
         \A d \in KeyedObjects :
           ~ListHas(disposables[r], d) =>
             (~KeyedHas(r, d) /\ KeyedGet(r, d) = Undef)

\* C19: on the keyed store, between the host program's calls has(k) is true
\* exactly when the store has an entry under k, for a disposable and for an
\* id; when add(d) returns has(d) is true and get(d) is d, and when
\* add(d, id) returns has(id) is true and get(id) is d.
C19_HasIffRegistered ==
  \A r \in KeyedStores :
    /\ AtTop =>
         \A k \in KeyedObjects \cup Ids :
           KeyedHas(r, k) <=> ListHas(disposables[r], k)
    /\ AddedByIdentity(r) =>
         (KeyedHas(r, pre.c.d) /\ KeyedGet(r, pre.c.d) = pre.c.d)
    /\ AddedById(r) =>
         (KeyedHas(r, pre.c.k) /\ KeyedGet(r, pre.c.k) = pre.c.d)

\* the host program's add or set on r of the very disposable that r held
\* has returned
SameAgain(r) ==
  /\ AtTop /\ pre.c.op \in {"add", "set"} /\ pre.c.r = r
  /\ pre.c.d # Undef /\ Registered(pre.disposables[r], pre.c.d)

\* C20: add on a disposableStore, or set on a disposableOne, of the very
\* disposable it holds invokes nothing and changes nothing: the entries and
\* every abortable's subscription are as before; and a later dispose() by
\* the host program invokes each entry held exactly once.
C20_SameAgain ==
  \A r \in Stores \cup Ones :
    /\ SameAgain(r) =>
         /\ calls = pre.calls
         /\ trace = IF r \in Ones
                    THEN <<Event("return", r, "current", pre.c.d)>>
                    ELSE <<>>
         /\ disposables = pre.disposables
         /\ observer = pre.observer /\ wrapped = pre.wrapped
    /\ Returned("dispose", r) =>
         /\ \A n \in 1..Len(pre.disposables[r]) :
              CallsBy(r, pre.disposables[r][n].k, pre.disposables[r][n].v) = 1
         /\ disposables[r] = <<>>
    /\ \A i, j \in 1..Len(disposables[r]) :
         (disposables[r][i].v = disposables[r][j].v
            /\ disposables[r][i].k # Empty) => i = j

\* dispose() has returned on a disposableOne in which the abortable was set
\* twice, and has invoked it once
C20_Witness ==
  /\ Returned("dispose", "h1")
  /\ ops = 3 /\ inserted["h1"] = <<"current">>
  /\ pre.disposables["h1"] = <<Entry("current", "a1")>>
  /\ pre.calls["a1"] = 0 /\ pre.calls["h1"] = 1
  /\ calls["a1"] = 1 /\ calls["w1"] = 1
  /\ Times(Event("notify", "h1", "current", "a1")) = 1

\* the host program called make on r with an executor that returns nothing
MakesNothing(r) == pre.c.op = "make" /\ pre.c.r = r /\ pre.c.d = Undef

\* C21: make whose executor returns a falsy value leaves the registry as it
\* was: the executor runs once, no entry is added, removed or flushed (on a
\* map, the entry stored under the key stays) and nothing else is invoked.
C21_FalsyMake ==
  \A r \in Stores \cup Maps \cup Ones :
    MakesNothing(r) =>
      /\ disposables = pre.disposables
      /\ observer = pre.observer /\ wrapped = pre.wrapped
      /\ \A x \in DOMAIN calls \ Executors : calls[x] = pre.calls[x]
      /\ calls["x1"] <= pre.calls["x1"] + 1
      /\ AtTop => (calls["x1"] = pre.calls["x1"] + 1 /\ ~Threw)

\* make(key, executor) has returned on a map that holds an entry under key,
\* the executor having run and returned nothing
C21_Witness ==
  /\ AtTop /\ MakesNothing("m1")
  /\ ListHas(pre.disposables["m1"], pre.c.k)
  /\ ListHas(disposables["m1"], pre.c.k)
  /\ calls["x1"] = pre.calls["x1"] + 1

\* the entries that r held when the host program's call began were each
\* invoked once by r
EachOnce(r) ==
  \A n \in 1..Len(pre.disposables[r]) :
    CallsBy(r, pre.disposables[r][n].k, pre.disposables[r][n].v) = 1

\* the host program's call is r(), r.dispose() or r.flush()
DisposesAll(r) ==
  pre.c.r = r /\ pre.c.op \in {"dispose", "flush"} /\ pre.c.k = Undef

\* C22: on a store or a map, calling the registry as a function, calling its
\* dispose method (on the registry or detached from it) and calling flush()
\* without an argument all start the same function on the same state, and
\* when it returns every entry that was live has been invoked once and the
\* registry is empty.
C22_SameEffect ==
  [][\A r \in Stores \cup Maps :
       /\ (AtTop /\ ~AtTop' /\ DisposesAll(r)') =>
            /\ stack' = <<Frame(Callee("dispose", r, Undef, Undef), "start",
                                FALSE, Undef, Undef)>>
            /\ disposables' = disposables /\ isDisposing' = isDisposing
            /\ observer' = observer /\ wrapped' = wrapped
       /\ (AtTop' /\ DisposesAll(r)') =>
            (EachOnce(r)' /\ disposables'[r] = <<>>)]_vars

\* flush() has returned on a store that held two entries, after an earlier
\* call had disposed the store, and has invoked each of the two once
C22_Witness ==
  /\ Returned("flush", "s1") /\ pre.c.k = Undef
  /\ Len(pre.disposables["s1"]) = 2 /\ EachOnce("s1")
  /\ disposables["s1"] = <<>>
  /\ calls["s1"] = 2

\* the host program's flush(key) on the map m has returned
FlushReturned(m) == AtTop /\ pre.c.op = "flush" /\ pre.c.r = m

\* C23: flush(key) on a map disposes the whole map only for a key that is
\* null or undefined; for any other key, the falsy key 0 included, it
\* invokes once and removes the entry under that key, and every other entry
\* stays stored, in its place, and is not invoked.
C23_FlushKey ==
  \A m \in Maps :
    FlushReturned(m) =>
      IF pre.c.k = Undef
      THEN EachOnce(m) /\ disposables[m] = <<>>
      ELSE /\ disposables[m] =
                SelectSeq(pre.disposables[m], LAMBDA e : e.k # pre.c.k)
           /\ \A n \in 1..Len(pre.disposables[m]) :
                CallsBy(m, pre.disposables[m][n].k, pre.disposables[m][n].v)
                  = IF pre.disposables[m][n].k = pre.c.k THEN 1 ELSE 0

\* flush(0) has returned on a map that held entries under 0 and under k1:
\* the entry under 0 was invoked, the entry under k1 is still stored
C23_Witness ==
  /\ FlushReturned("m1") /\ pre.c.k = Zero
  /\ ListHas(pre.disposables["m1"], Zero)
  /\ ListHas(pre.disposables["m1"], "k1")
  /\ CallsBy("m1", Zero, ListGet(pre.disposables["m1"], Zero)) = 1
  /\ ListHas(disposables["m1"], "k1")

\* the host program has set or made d in a registry
WasSet(d) == life[d].phase # "new"

\* the host program's set or make on the holder h, with a disposable or, for
\* set, with nothing, has returned
Replaces(h) ==
  /\ AtTop /\ pre.c.r = h /\ pre.c.op \in {"set", "make"}
  /\ ~(pre.c.op = "make" /\ pre.c.d = Undef)

\* C24: set (or make) on a disposableOne of a disposable other than the
\* current one invokes the previous current disposable exactly once, before
\* the new one is stored, also when the new one is null or undefined (the
\* holder is then empty); so when the disposables set and made are distinct,
\* each has been invoked exactly once as soon as it is no longer current, at
\* the latest when dispose() returns, and never twice.
C24_Replace ==
  \A h \in Ones :
    /\ \A d \in Plain : calls[d] <= 1
    /\ AtTop => \A d \in Plain :
                  calls[d] = IF WasSet(d) /\ current(h) # d THEN 1 ELSE 0
    /\ Replaces(h) =>
         LET prev == ListGet(pre.disposables[h], "current")
         IN /\ current(h) = pre.c.d
            /\ prev # Undef =>
                 /\ CallsBy(h, "current", prev) = 1
                 /\ Place(Event("call", h, "current", prev)) <
                      Place(Event("store", h, "current", pre.c.d))
            /\ \A d \in Plain \ {prev} : calls[d] = pre.calls[d]
    /\ Returned("dispose", h) => disposables[h] = <<>>

\* dispose() has returned on a disposableOne in which three disposers and
\* then nothing were set or made, one after another
C24_Witness ==
  /\ Returned("dispose", "h1") /\ ops = 5
  /\ \A d \in Plain : WasSet(d) /\ calls[d] = 1
  /\ pre.disposables["h1"] = <<>>

\* the host program invoked the abortable a while it was the current
\* disposable of the holder h, and the call has returned
InvokedAsCurrent(a, h) ==
  /\ AtTop /\ pre.c.op = "abortable" /\ pre.c.r = a
  /\ ListGet(pre.disposables[h], "current") = a

\* C25: whenever an abortable is the current disposable of a disposableOne,
\* whether the constructor, set or make made it current, invoking the
\* abortable directly leaves the holder empty.
C25_CurrentAborts ==
  \A a \in Abortables, h \in Ones :
    InvokedAsCurrent(a, h) => current(h) = Undef

\* the closure that set(k, a) of the map m subscribes to the abortable a
RemovesFrom(m, k) == Callee("remove", m, k, Undef)

\* the host program's set(k, a) on the map m, which held a under k, has
\* returned
SetAgain(m, a) ==
  /\ AtTop /\ pre.c.op = "set" /\ pre.c.r = m /\ pre.c.d = a
  /\ ListGet(pre.disposables[m], pre.c.k) = a

\* the host program invoked the abortable a, already invoked before, while
\* the map m held it under k and was subscribed to it, and the call has
\* returned
AbortedAgain(m, k, a) ==
  /\ AtTop /\ pre.c.op = "abortable" /\ pre.c.r = a
  /\ ListGet(pre.disposables[m], k) = a
  /\ pre.observer[a] = RemovesFrom(m, k) /\ pre.wrapped[a] = Undef

\* C26: set on a map of the abortable that it holds under the same key
\* invokes the abortable once as the flush of the previous entry, which
\* invokes the wrapped disposer once if it was never invoked before, stores
\* one entry under the key and subscribes the map again; invoking the
\* abortable afterwards removes the entry and does not invoke the wrapped
\* disposer again.
C26_Rebind ==
  \A m \in Maps, a \in Abortables :
    /\ SetAgain(m, a) =>
         /\ CallsBy(m, pre.c.k, a) = 1 /\ calls[a] = pre.calls[a] + 1
         /\ calls[InnerOf(a)] = pre.calls[InnerOf(a)]
                                  + IF pre.wrapped[a] # Undef THEN 1 ELSE 0
         /\ calls[InnerOf(a)] = 1
         /\ Cardinality({n \in 1..Len(disposables[m]) :
                           disposables[m][n].k = pre.c.k}) = 1
         /\ ListGet(disposables[m], pre.c.k) = a
         /\ observer[a] = RemovesFrom(m, pre.c.k) /\ wrapped[a] = Undef
    /\ \A k \in Keys :
         AbortedAgain(m, k, a) =>
           /\ ~ListHas(disposables[m], k)
           /\ calls[InnerOf(a)] = pre.calls[InnerOf(a)]
           /\ observer[a] = None

\* the abortable was set in a map under k1, set there again and then
\* invoked: the wrapped disposer ran once, during the second set, and the
\* map is empty
C26_Witness ==
  /\ AbortedAgain("m1", "k1", "a1") /\ ops = 3
  /\ inserted["m1"] = <<"k1">>
  /\ calls["a1"] = 2 /\ calls["w1"] = 1
  /\ disposables["m1"] = <<>>

\* an observer subscribed to the abortable a threw during the current
\* top-level call
ObserverThrew(a) ==
  \E o \in Observers : Times(Event("throw", a, Undef, o)) > 0

\* C27: an error thrown by the subscribed observer, when the abortable is
\* invoked or when a new subscription supersedes the observer, is caught and
\* does not reach the caller; an invocation still clears the subscription
\* and invokes the wrapped disposer (once, if it was not invoked before); a
\* new subscription still replaces the observer and does not invoke the
\* wrapped disposer.
C27_ObserverThrows ==
  \A a \in Abortables :
    /\ ~escaped
    /\ (AtTop /\ ObserverThrew(a)) =>
         /\ (pre.c.op = "abortable" /\ pre.c.r = a) =>
              /\ observer[a] = None /\ wrapped[a] = Undef
              /\ calls[InnerOf(a)] =
                   pre.calls[InnerOf(a)]
                     + IF pre.wrapped[a] # Undef THEN 1 ELSE 0
              /\ calls[InnerOf(a)] = 1
         /\ (pre.c.op = "subscribe" /\ pre.c.r = a) =>
              /\ observer[a] = Callee("fn", pre.c.d, Undef, Undef)
              /\ calls[InnerOf(a)] = pre.calls[InnerOf(a)]
              /\ wrapped = pre.wrapped
         /\ (pre.c.op \in {"add", "set", "make"}) =>
              /\ pre.c.d = a
              /\ observer[a].op \in {"remove", "oneRemove"}
              /\ observer[a].r = pre.c.r
              /\ calls[InnerOf(a)] = pre.calls[InnerOf(a)]
         /\ pre.c.op \in {"abortable", "subscribe", "add", "set", "make"}

\* the abortable was invoked while an observer was subscribed, the observer
\* threw, and the wrapped disposer was invoked
C27_Witness ==
  /\ AtTop /\ pre.c.op = "abortable" /\ ObserverThrew("a1")
  /\ pre.observer["a1"].op = "fn"
  /\ pre.calls["w1"] = 0 /\ calls["w1"] = 1
  /\ observer["a1"] = None

\* the host program's set or make of a disposable on r has returned, and
\* the cleanup of the entry it replaced threw
ReplacedThrowing(r) ==
  /\ AtTop /\ pre.c.op \in {"set", "make"} /\ pre.c.r = r
  /\ pre.c.d # Undef /\ Threw

\* C28: when the cleanup of the previous entry throws while set or make on
\* a map (same key) or on a disposableOne flushes it, the error does not
\* reach the caller, and the new disposable is stored and returned without
\* being invoked (the previous entry was invoked once, before the store).
C28_ReplaceThrows ==
  \A r \in Maps \cup Ones :
    /\ ~escaped
    /\ ReplacedThrowing(r) =>
         LET prev == ListGet(pre.disposables[r], pre.c.k)
             stored == Place(Event("store", r, pre.c.k, pre.c.d))
         IN /\ prev # Undef /\ CallsBy(r, pre.c.k, prev) = 1
            /\ Times(Event("throw", r, pre.c.k, prev)) = 1
            /\ ListGet(disposables[r], pre.c.k) = pre.c.d
            /\ stored > 0
            /\ trace[Len(trace)] = Event("return", r, pre.c.k, pre.c.d)
            /\ \A n \in stored..Len(trace) : trace[n].e # "call"
            /\ prev # pre.c.d => calls[pre.c.d] = pre.calls[pre.c.d]

\* make on a disposableOne that held p1 has returned p3 and stored it, p1
\* having thrown
C28_Witness ==
  /\ ReplacedThrowing("h1") /\ pre.c.op = "make" /\ pre.c.d = "p3"
  /\ ListGet(pre.disposables["h1"], "current") = "p1"
  /\ Times(Event("throw", "h1", "current", "p1")) = 1
  /\ current("h1") = "p3" /\ calls["p3"] = 0

\* the function that the library runs to invoke the disposable d of the
\* host program: its dispose method if it has one, else d itself
Runs(d) == IF d \in DisposableDisposers THEN MethodOf(d) ELSE d

\* the host program's dispose(d), or flush(d) on a store that held d, has
\* returned
Invoked(d) ==
  /\ AtTop
  /\ \/ pre.c.op = "utils.dispose" /\ pre.c.d = d
     \/ /\ pre.c.op = "flush" /\ pre.c.r \in Stores /\ pre.c.k = d
        /\ ListHas(pre.disposables[pre.c.r], d)

\* C29: a disposable that is a function and has a dispose method is invoked
\* by calling the method only, with the disposable as receiver, and the
\* function itself is never called; a function without a dispose method is
\* called as a function, without receiver; every call is made without
\* arguments.
C29_MethodFirst ==
  /\ \A n \in 1..Len(stack) :
       stack[n].c.op = "fn" =>
         /\ stack[n].arg = None
         /\ stack[n].c.r \in Methods =>
              /\ stack[n].c.d \in DisposableDisposers
              /\ MethodOf(stack[n].c.d) = stack[n].c.r
         /\ stack[n].c.r \notin Methods => stack[n].c.d = Undef
  /\ \A d \in DisposableDisposers : calls[d] = 0
  /\ \A d \in Plain \cup DisposableDisposers :
       Invoked(d) =>
         \A x \in Plain \cup Methods :
           calls[x] = pre.calls[x] + IF x = Runs(d) THEN 1 ELSE 0

\* flush(c1) has returned on a store that held c1, a function with a dispose
\* method: the method was called, the function was not
C29_Witness ==
  /\ Invoked("c1") /\ pre.c.op = "flush"
  /\ calls["c1.dispose"] = 1 /\ calls["c1"] = 0
  /\ CallsBy("s1", "c1", "c1.dispose") = 1

\* the host program's call of the joined disposer j has returned
JoinReturned(j) == AtTop /\ pre.c.op = "joined" /\ pre.c.r = j

\* C30: a call of the disposer returned by join(d1, ..., dn) invokes each di
\* once, in the order given, whether or not an earlier one throws, and no
\* error reaches the caller.
C30_JoinInOrder ==
  \A j \in Joins :
    JoinReturned(j) =>
      /\ ~escaped
      /\ CallOrder(j) = [i \in 1..Len(disposables[j]) |-> ArrayKey(i)]
      /\ \A i \in 1..Len(disposables[j]) :
           CallsBy(j, ArrayKey(i), Runs(disposables[j][i].v)) = 1
      /\ disposables[j] = pre.disposables[j]

\* the disposer of join(p1, c1, p2) was called and has returned: p1 threw,
\* and the dispose method of c1 and then p2 were still invoked
C30_Witness ==
  /\ JoinReturned("j1")
  /\ disposables["j1"] = <<Entry("0", "p1"), Entry("1", "c1"), Entry("2", "p2")>>
  /\ Times(Event("throw", "j1", "0", "p1")) = 1
  /\ Place(Event("call", "j1", "1", "c1.dispose")) <
       Place(Event("call", "j1", "2", "p2"))
  /\ calls["p2"] = 1

\* the dispose method of o has been extended
Extended(o) == disposables[ExtensionOf(o)] # <<>>

\* the dispose method of the extended object o was called, by the host
\* program or by the library on its behalf, and the call has returned
ExtendedReturned(o) ==
  /\ AtTop /\ pre.disposables[ExtensionOf(o)] # <<>>
  /\ \/ pre.c.op = "method" /\ pre.c.r = o
     \/ pre.c.op = "utils.dispose" /\ pre.c.d = o
     \/ /\ pre.c.op = "dispose" /\ pre.c.r \in Stores
        /\ ListHas(pre.disposables[pre.c.r], o)

\* C31: extend(obj, d1, ..., dn) invokes nothing; afterwards each call of
\* obj.dispose() invokes the original dispose method first, with obj as
\* receiver, and then d1, ..., dn in the order given, each once.
C31_ExtendInOrder ==
  \A o \in DisposableDisposers :
    LET e == ExtensionOf(o)
    IN /\ (AtTop /\ pre.c.op = "extend" /\ pre.c.r = o) =>
            (calls = pre.calls /\ trace = <<>> /\ Extended(o))
       /\ \A n \in 1..Len(stack) :
            (stack[n].c.op = "fn" /\ stack[n].c.r = MethodOf(o)) =>
              stack[n].c.d = o
       /\ ExtendedReturned(o) =>
            /\ CallOrder(e) = [i \in 1..Len(disposables[e]) |-> ArrayKey(i)]
            /\ CallsBy(e, ArrayKey(1), MethodOf(o)) = 1
            /\ \A i \in 2..Len(disposables[e]) :
                 CallsBy(e, ArrayKey(i), disposables[e][i].v) = 1
            /\ calls[e] = pre.calls[e] + 1
            /\ calls[MethodOf(o)] = pre.calls[MethodOf(o)] + 1
            /\ disposables[e] = pre.disposables[e]

\* the dispose method of c1, extended with p2 and p1, was called and has
\* returned: the original method, then p2, then p1 were invoked
C31_Witness ==
  /\ ExtendedReturned("c1") /\ pre.c.op = "method"
  /\ disposables["e1"] =
       <<Entry("0", "c1.bound"), Entry("1", "p2"), Entry("2", "p1")>>
  /\ CallOrder("e1") = <<"0", "1", "2">>
  /\ calls["c1.dispose"] = 1 /\ calls["p2"] = 1 /\ calls["p1"] = 1

\* the host program's dispose() of r is in progress or has returned, and no
\* entry was stored since it began
DisposingOnly(r) ==
  /\ pre.c.op = "dispose" /\ pre.c.r = r
  /\ \A n \in 1..Len(trace) : trace[n].e # "store"

\* C32: while dispose() of a store or map is in progress, a cleanup that
\* calls flush(x) or flush(key) on that registry, for an entry already
\* invoked, being invoked or not yet reached, does not make the registry
\* invoke any of its entries more than once.
C32_FlushInside ==
  \A r \in Stores \cup Maps :
    DisposingOnly(r) =>
      \A n \in 1..Len(pre.disposables[r]) :
        CallsBy(r, pre.disposables[r][n].k, pre.disposables[r][n].v) <= 1

\* the n-th event is the return of a remove (on a map, set returns as well,
\* right after it stores)
IsRemove(n) ==
  /\ trace[n].e = "return"
  /\ ~(trace[n].r \in Maps /\ n > 1 /\ trace[n - 1].e = "store"
         /\ trace[n - 1].r = trace[n].r /\ trace[n - 1].k = trace[n].k)

\* the n-th event is the latest store of its entry
LatestStore(n) ==
  /\ trace[n].e = "store"
  /\ \A h \in (n + 1)..Len(trace) : trace[h] # trace[n]

\* invocations by r, after the n-th event, of the entry d under k
CallsAfter(n, r, k, d) ==
  Cardinality({h \in (n + 1)..Len(trace) : trace[h] = Event("call", r, k, d)})

\* the key k of r was removed after the n-th event
RemovedAfter(n, r, k) ==
  \E h \in (n + 1)..Len(trace) :
    IsRemove(h) /\ trace[h].r = r /\ trace[h].k = k

\* C36: when dispose() of a store or map returns, the registry is empty and
\* every entry that a cleanup added to it during the dispose() has been
\* invoked exactly once since it was stored (at most once if a cleanup
\* removed it again).
C36_AddedInside ==
  \A r \in Stores \cup Maps :
    Returned("dispose", r) =>
      /\ disposables[r] = <<>>
      /\ \A n \in 1..Len(trace) :
           (LatestStore(n) /\ trace[n].r = r) =>
             LET c == CallsAfter(n, r, trace[n].k, trace[n].d)
             IN c <= 1 /\ (~RemovedAfter(n, r, trace[n].k) => c = 1)

\* the disposable that the n-th event, the return of a remove, removed
RemovedBy(n) ==
  IF trace[n].r \in Maps THEN trace[n].d
  ELSE IF trace[n].d = "true" THEN trace[n].k ELSE Undef

\* C37: when a cleanup running inside dispose() of a store or map removes
\* an entry of that registry that was not invoked yet, the dispose() does
\* not invoke it (unless a cleanup registers it again afterwards).
C37_RemovedInside ==
  \A r \in Stores \cup Maps :
    (pre.c.op = "dispose" /\ pre.c.r = r) =>
      \A n \in 1..Len(trace) :
        (IsRemove(n) /\ trace[n].r = r /\ RemovedBy(n) # Undef) =>
          LET y == Event("call", r, trace[n].k, RemovedBy(n))
          IN (\A h \in 1..n : trace[h] # y) =>
               \A h \in (n + 1)..Len(trace) :
                 trace[h] = y =>
                   \E g \in (n + 1)..(h - 1) :
                     /\ trace[g].e = "store" /\ trace[g].r = r
                     /\ trace[g].k = trace[n].k

\* dispose() has returned on a map that held p1 under k1 and p2 under 0: the
\* cleanup p1 removed the entry under 0, and p2 was not invoked
C37_Witness ==
  /\ Returned("dispose", "m1")
  /\ pre.disposables["m1"] = <<Entry("k1", "p1"), Entry(Zero, "p2")>>
  /\ trace[Len(trace) - 1] = Event("return", "m1", Zero, "p2")
  /\ calls["p1"] = 1 /\ calls["p2"] = 0
  /\ disposables["m1"] = <<>>

\* C33: when the host program invokes an abortable, the only entry that any
\* registry loses is the abortable itself: every other disposable stays
\* stored, also one stored under a key that held the abortable before.
C33_RemovesSelfOnly ==
  \A a \in Abortables, r \in Stores \cup Maps \cup Ones :
    Aborted(a) =>
      \A n \in 1..Len(pre.disposables[r]) :
        pre.disposables[r][n].v # a =>
          \E h \in 1..Len(disposables[r]) :
            disposables[r][h] = pre.disposables[r][n]

\* set(key, d) of a map is about to write d into the Map
SetWrites ==
  /\ stack # <<>> /\ Top.c.op = "set"
  /\ Top.pc = "subscribed" \/ (Top.pc = "flushed" /\ ~isAbortable(Top.c.d))

\* C34: at the moment set(key, d) of a map writes d into the map, nothing
\* is stored under the key, also when the cleanup of the previous entry,
\* which the set flushed, registered something under the key.
C34_NoOverwrite ==
  SetWrites => ~ListHas(disposables[Top.c.r], Top.c.k)

\* set(d) of a disposableOne is about to assign current
OneSetWrites == stack # <<>> /\ Top.c.op = "oneSet" /\ Top.pc = "flushed"

\* C35: at the moment set of a disposableOne assigns current, the holder is
\* empty, also when the cleanup of the previous disposable, which the set
\* flushed, set or made a disposable in the holder.
C35_NoDrop ==
  OneSetWrites => current(Top.c.r) = Undef

\* C38: the wrapped disposer of an abortable is entered at most once, also
\* when it invokes the abortable again while it is running.
C38_NotReentered ==
  \A a \in Abortables :
    \A m, n \in 1..Len(trace) :
      (/\ trace[m].e = "call" /\ trace[m].d = InnerOf(a)
       /\ trace[n].e = "call" /\ trace[n].d = InnerOf(a)) => m = n

\* the host program called make on r, under the key or id pre.c.k
MakesKeyed(r) == pre.c.op = "make" /\ pre.c.r = r

\* the executor of the host program's make threw
ExecutorThrew ==
  /\ trace # <<>> /\ trace[Len(trace)].e = "throw"
  /\ trace[Len(trace)].d \in Executors

\* the executor was entered before the n-th event of the call
ExecutedBefore(n) ==
  \E m \in 1..(n - 1) : trace[m].e = "call" /\ trace[m].d \in Executors

MakeThrewKeeping ==
  /\ AtTop /\ MakesKeyed("m1") /\ ExecutorThrew
  /\ ListHas(pre.disposables["m1"], pre.c.k)
  /\ disposables = pre.disposables

====
